---- MODULE Spec2Model ----
(***************************************************************************)
(* A model of the minicompiler front end: the lexer (src/src/lexer),       *)
(* the recursive-descent parser (src/src/parser), the semantic analyzer    *)
(* (semantic_analyzer.cpp) and the IR builder (ir_builder.cpp).            *)
(*                                                                         *)
(* Source text is a sequence of one-character strings.  Identifier names   *)
(* and lexemes are sequences of characters as well, so that lexing and the *)
(* literal conversions work on the characters the program reads.           *)
(***************************************************************************)
EXTENDS Integers, Sequences, FiniteSets, TLC

VARIABLES
    pc,        \* which call is in flight / has returned
    source,    \* Lexer::source_
    lex,       \* Lexer::start_, current_, line_, column_ and the cerr log
    tokens,    \* Lexer::tokens_ ; after scanTokens, Parser::tokens_
    par,       \* Parser::current_, parse()'s local statements, the cerr log
    program,   \* the Program returned by Parser::parse
    sem,       \* SemanticAnalyzer: scope chain, return type, errors_
    irb,       \* IRBuilder: module_, current function/block, symbol table, stack, counters
    calls      \* number of analyze()/build() calls made on the same instance

vars == <<pc, source, lex, tokens, par, program, sem, irb, calls>>

----------------------------------------------------------------------------
(* Bounds of the model *)

\* longest source text enumerated character by character
MaxSrcLen == 4

\* longest program enumerated word by word
MaxWords == 3

\* how many times analyze()/build() is called on one instance
MaxCalls == 2

----------------------------------------------------------------------------
(* Local bindings.  Let(v, F) is F(v) with v evaluated once: the value of a  *)
(* call is computed, named and then used, as a local variable is in the code.*)

Let(v, F(_)) == CHOOSE y \in {F(x) : x \in {v}} : TRUE

Let2(v, w, F(_, _)) == CHOOSE y \in {F(x[1], x[2]) : x \in {<<v, w>>}} : TRUE

----------------------------------------------------------------------------
(* Characters *)

NUL == "NUL"

Digits == {"0", "1", "2", "3", "4", "5", "6", "7", "8", "9"}

Letters == {"a", "b", "c", "d", "e", "f", "g", "h", "i", "j", "k", "l", "m",
            "n", "o", "p", "q", "r", "s", "t", "u", "v", "w", "x", "y", "z"}

isalpha(c) == c \in Letters
isdigit(c) == c \in Digits
isalnum(c) == isalpha(c) \/ isdigit(c)

DigitValue(c) ==
    CASE c = "0" -> 0 [] c = "1" -> 1 [] c = "2" -> 2 [] c = "3" -> 3
      [] c = "4" -> 4 [] c = "5" -> 5 [] c = "6" -> 6 [] c = "7" -> 7
      [] c = "8" -> 8 [] c = "9" -> 9

----------------------------------------------------------------------------
(* Lexer *)

keywords_ ==
    { << <<"i","n","t">>, "INT" >>,
      << <<"f","l","o","a","t">>, "FLOAT" >>,
      << <<"i","f">>, "IF" >>,
      << <<"e","l","s","e">>, "ELSE" >>,
      << <<"w","h","i","l","e">>, "WHILE" >>,
      << <<"r","e","t","u","r","n">>, "RETURN" >>,
      << <<"v","o","i","d">>, "VOID" >> }

Token(type, lexeme, line, column) ==
    [type |-> type, lexeme |-> lexeme, line |-> line, column |-> column]

LexerInit == [start |-> 0, current |-> 0, line |-> 1, column |-> 1, log |-> << >>]

Lexer_isAtEnd(src, l) == l.current >= Len(src)

Lexer_advance(l) == [l EXCEPT !.column = @ + 1, !.current = @ + 1]

Lexer_peek(src, l, offset) ==
    IF l.current + offset >= Len(src) THEN NUL ELSE src[l.current + offset + 1]

\* the characters source_.substr(pos, n)
substr(src, pos, n) ==
    [i \in 1..(IF pos + n > Len(src) THEN Len(src) - pos ELSE n) |-> src[pos + i]]

\* the while loop of the '//' branch
RECURSIVE skipLineComment(_, _)
skipLineComment(src, l0) ==
    Let(l0, LAMBDA l :
        IF Lexer_peek(src, l, 0) # "\n" /\ ~Lexer_isAtEnd(src, l)
        THEN skipLineComment(src, Lexer_advance(l))
        ELSE l)

\* a block comment loop that runs to the end of the source
skipBlockBody_toEnd(src, l0) ==
    [l0 EXCEPT !.column = @ + Len(src) - l0.current, !.current = Len(src)]

\* the while loop of the '/*' branch, after the opening two characters
RECURSIVE skipBlockBody(_, _)
skipBlockBody(src, l0) ==
    Let(l0, LAMBDA l :
        IF ~Lexer_isAtEnd(src, l)
           /\ ~(Lexer_peek(src, l, 0) = "*" /\ Lexer_peek(src, l, 1) = "/")
        THEN skipBlockBody(src,
                Lexer_advance(IF Lexer_peek(src, l, 0) = "\n"
                              THEN [l EXCEPT !.line = @ + 1, !.column = 1]
                              ELSE l))
        ELSE l)

RECURSIVE skipWhitespace(_, _)
skipWhitespace(src, l0) ==
    Let(l0, LAMBDA l :
        IF Lexer_isAtEnd(src, l) THEN l
        ELSE LET c == Lexer_peek(src, l, 0) IN
             CASE c \in {" ", "\t", "\r"} -> skipWhitespace(src, Lexer_advance(l))
               [] c = "\n" ->
                    skipWhitespace(src,
                        Lexer_advance([l EXCEPT !.line = @ + 1, !.column = 1]))
               [] c = "/" ->
                    IF Lexer_peek(src, l, 1) = "/"
                    THEN skipWhitespace(src, skipLineComment(src, l))
                    ELSE IF Lexer_peek(src, l, 1) = "*"
                    THEN Let(skipBlockBody(src, Lexer_advance(Lexer_advance(l))),
                             LAMBDA b :
                                skipWhitespace(src,
                                    IF ~Lexer_isAtEnd(src, b)
                                    THEN Lexer_advance(Lexer_advance(b))
                                    ELSE b))
                    ELSE l
               [] OTHER -> l)

\* the length of the longest run of characters satisfying P that starts at
\* position from (0-based); peek() past the end is NUL, which satisfies no P used
RunLength(src, from, P(_)) ==
    CHOOSE n \in 0..(Len(src) - from) :
        /\ \A i \in 1..n : P(src[from + i])
        /\ from + n = Len(src) \/ ~P(src[from + n + 1])

\* advance() called n times
advanceTimes(l, n) == [l EXCEPT !.column = @ + n, !.current = @ + n]

\* the loops `while (isalnum(peek()) || peek() == '_') advance();`
advanceWhileIdent(src, l) ==
    advanceTimes(l, RunLength(src, l.current, LAMBDA c : isalnum(c) \/ c = "_"))

\* the loops `while (isdigit(peek())) advance();`
advanceWhileDigit(src, l) == advanceTimes(l, RunLength(src, l.current, isdigit))

scanIdentifier(src, l0) ==
    Let(advanceWhileIdent(src, l0), LAMBDA l :
        LET text == substr(src, l.start, l.current - l.start)
            kw   == {k \in keywords_ : k[1] = text}
            type == IF kw # {} THEN (CHOOSE k \in kw : TRUE)[2] ELSE "IDENTIFIER"
        IN  [tok |-> Token(type, text, l.line, l.column - Len(text)), l |-> l])

scanNumber(src, l0) ==
    Let(advanceWhileDigit(src, l0), LAMBDA l1 :
        LET isFloat == Lexer_peek(src, l1, 0) = "." /\ isdigit(Lexer_peek(src, l1, 1))
        IN  Let(IF isFloat THEN advanceWhileDigit(src, Lexer_advance(l1)) ELSE l1,
                LAMBDA l :
                    LET text == substr(src, l.start, l.current - l.start)
                        type == IF isFloat THEN "FLOAT_LITERAL" ELSE "INTEGER_LITERAL"
                    IN  [tok |-> Token(type, text, l.line, l.column - Len(text)),
                         l |-> l]))

\* the while loop of scanString
RECURSIVE advanceString(_, _)
advanceString(src, l0) ==
    Let(l0, LAMBDA l :
        IF Lexer_peek(src, l, 0) # "\"" /\ ~Lexer_isAtEnd(src, l)
        THEN advanceString(src,
                Lexer_advance(IF Lexer_peek(src, l, 0) = "\n"
                              THEN [l EXCEPT !.line = @ + 1, !.column = 1]
                              ELSE l))
        ELSE l)

scanString(src, l0) ==
    Let(advanceString(src, l0), LAMBDA l1 :
        IF Lexer_isAtEnd(src, l1)
        THEN LET l == [l1 EXCEPT !.log = Append(@, "Unterminated string.")]
             IN  [tok |-> Token("UNKNOWN", substr(src, l.start, l.current - l.start),
                                l.line, l.column - (l.current - l.start)),
                  l |-> l]
        ELSE LET l     == Lexer_advance(l1)
                 value == substr(src, l.start + 1, l.current - l.start - 2)
             IN  [tok |-> Token("STRING_LITERAL", value, l.line,
                                l.column - Len(value) - 2),
                  l |-> l])

\* Lexer::match
Lexer_match(src, l, expected) ==
    ~(Lexer_isAtEnd(src, l) \/ src[l.current + 1] # expected)

\* operator cases that never look at the next character
twoChar_single(src, l, second, longType, shortType, c) ==
    [tok |-> Token(shortType, <<c>>, l.line, l.column - 1), l |-> l]

\* the two-character operator cases of scanToken's switch
twoChar(src, l, second, longType, shortType, c) ==
    IF Lexer_match(src, l, second)
    THEN LET m == [l EXCEPT !.current = @ + 1, !.column = @ + 1]
         IN  [tok |-> Token(longType, <<c, second>>, m.line, m.column - 2), l |-> m]
    ELSE [tok |-> Token(shortType, <<c>>, l.line, l.column - 1), l |-> l]

singleCharType(c) ==
    CASE c = "(" -> "LEFT_PAREN"   [] c = ")" -> "RIGHT_PAREN"
      [] c = "{" -> "LEFT_BRACE"   [] c = "}" -> "RIGHT_BRACE"
      [] c = "[" -> "LEFT_BRACKET" [] c = "]" -> "RIGHT_BRACKET"
      [] c = "," -> "COMMA"        [] c = "." -> "UNKNOWN"
      [] c = ";" -> "SEMICOLON"    [] c = "+" -> "PLUS"
      [] c = "-" -> "MINUS"        [] c = "*" -> "MULTIPLY"
      [] c = "/" -> "DIVIDE"       [] c = "%" -> "MODULO"
      [] OTHER   -> "UNKNOWN"

scanToken(src, l0) ==
    Let(skipWhitespace(src, l0), LAMBDA w :
    IF Lexer_isAtEnd(src, w)
    THEN [tok |-> Token("END_OF_FILE", << >>, w.line, w.column), l |-> w]
    ELSE LET s == [w EXCEPT !.start = w.current]
             c == src[s.current + 1]
             l == Lexer_advance(s)
         IN  IF isalpha(c) \/ c = "_" THEN scanIdentifier(src, l)
             ELSE IF isdigit(c) THEN scanNumber(src, l)
             ELSE IF c = "\"" THEN scanString(src, l)
             ELSE CASE c = "=" -> twoChar(src, l, "=", "EQUAL", "ASSIGN", c)
                    [] c = "!" -> twoChar(src, l, "=", "NOT_EQUAL", "NOT", c)
                    [] c = "<" -> twoChar(src, l, "=", "LESS_EQUAL", "LESS", c)
                    [] c = ">" -> twoChar(src, l, "=", "GREATER_EQUAL", "GREATER", c)
                    [] c = "&" -> twoChar(src, l, "&", "AND", "UNKNOWN", c)
                    [] c = "|" -> twoChar(src, l, "|", "OR", "UNKNOWN", c)
                    [] OTHER   ->
                         [tok |-> Token(singleCharType(c), <<c>>, l.line, l.column - 1),
                          l |-> l])

\* the token appended after the loop of scanTokens
eofToken(l) == Token("END_OF_FILE", << >>, l.line, l.column)

\* scanTokens as a function of the source: the loop, then the final EOF
RECURSIVE scanLoop(_, _, _)
scanLoop(src, l, toks) ==
    IF Lexer_isAtEnd(src, l) THEN Append(toks, eofToken(l))
    ELSE Let(scanToken(src, [l EXCEPT !.start = l.current]), LAMBDA r :
             scanLoop(src, r.l, Append(toks, r.tok)))

scanTokens(src) == scanLoop(src, LexerInit, << >>)

----------------------------------------------------------------------------
(* AST nodes (ast.h).  A null unique_ptr is the node Null.                 *)

Null == [kind |-> "null"]

Loc(tok) == [line |-> tok.line, column |-> tok.column]

IntegerLiteral(value, loc) == [kind |-> "IntegerLiteral", value |-> value, loc |-> loc]
FloatLiteral(value, loc) == [kind |-> "FloatLiteral", value |-> value, loc |-> loc]
StringLiteral(value, loc) == [kind |-> "StringLiteral", value |-> value, loc |-> loc]
VariableExpression(name, loc) == [kind |-> "VariableExpression", name |-> name, loc |-> loc]
BinaryExpression(left, op, right, loc) ==
    [kind |-> "BinaryExpression", left |-> left, op |-> op, right |-> right, loc |-> loc]
UnaryExpression(op, operand, loc) ==
    [kind |-> "UnaryExpression", op |-> op, operand |-> operand, loc |-> loc]
CallExpression(callee, arguments, loc) ==
    [kind |-> "CallExpression", callee |-> callee, arguments |-> arguments, loc |-> loc]
ExpressionStatement(expression) ==
    [kind |-> "ExpressionStatement", expression |-> expression]
VarDeclaration(type, name, initializer, loc) ==
    [kind |-> "VarDeclaration", type |-> type, name |-> name,
     initializer |-> initializer, loc |-> loc]
BlockStatement(statements, loc) ==
    [kind |-> "BlockStatement", statements |-> statements, loc |-> loc]
IfStatement(condition, thenBranch, elseBranch, loc) ==
    [kind |-> "IfStatement", condition |-> condition, thenBranch |-> thenBranch,
     elseBranch |-> elseBranch, loc |-> loc]
WhileStatement(condition, body, loc) ==
    [kind |-> "WhileStatement", condition |-> condition, body |-> body, loc |-> loc]
ReturnStatement(value, loc) == [kind |-> "ReturnStatement", value |-> value, loc |-> loc]
FunctionParameter(type, name, loc) == [type |-> type, name |-> name, loc |-> loc]
FunctionDeclaration(returnType, name, parameters, body, loc) ==
    [kind |-> "FunctionDeclaration", returnType |-> returnType, name |-> name,
     parameters |-> parameters, body |-> body, loc |-> loc]
Program(statements) == [kind |-> "Program", statements |-> statements]

Str_int == <<"i", "n", "t">>
Str_float == <<"f", "l", "o", "a", "t">>
Str_void == <<"v", "o", "i", "d">>

----------------------------------------------------------------------------
(* Literal conversions used by Parser::primary *)

\* the largest value of int, the result type of std::stoi
INT_MAX == 2147483647

\* digits read left to right; -1 once the value no longer fits an int
RECURSIVE stoiFrom(_, _, _)
stoiFrom(lexeme, i, acc) ==
    IF i > Len(lexeme) THEN acc
    ELSE LET d == DigitValue(lexeme[i]) IN
         IF acc = -1 \/ acc > (INT_MAX - d) \div 10
         THEN -1
         ELSE stoiFrom(lexeme, i + 1, acc * 10 + d)

\* std::stoi on a digit run: the value, or std::out_of_range
stoi(lexeme) ==
    Let(stoiFrom(lexeme, 1, 0), LAMBDA v :
        IF v = -1 THEN [exc |-> "out_of_range", value |-> 0]
        ELSE [exc |-> "none", value |-> v])

\* a digit sequence without its leading zeros
stripLeadingZeros(ds) ==
    SubSeq(ds, RunLength(ds, 0, LAMBDA c : c = "0") + 1, Len(ds))

\* a digit sequence without its trailing zeros
stripTrailingZeros(ds) ==
    LET keep == {n \in 0..Len(ds) : n = 0 \/ ds[n] # "0"}
    IN  SubSeq(ds, 1, CHOOSE n \in keep : \A m \in keep : m <= n)

\* the number of decimal digits of FLT_MAX (3.4e38)
FloatMaxDigits == 39

\* 2^128 - 2^103, the least integer that rounds to a float beyond FLT_MAX
FloatOverflow ==
    <<"3", "4", "0", "2", "8", "2", "3", "5", "6", "7", "7", "9", "7", 
      "3", "3", "6", "6", "1", "6", "3", "7", "5", "3", "9", "3", "9", 
      "5", "4", "5", "8", "1", "4", "2", "5", "6", "8", "4", "4", "8">>

\* whether the digit sequence a denotes a number >= the one b denotes (same length)
digitsGeq(a, b) ==
    \/ a = b
    \/ \E i \in 1..Len(a) :
            /\ DigitValue(a[i]) > DigitValue(b[i])
            /\ \A j \in 1..(i - 1) : a[j] = b[j]

\* std::stof on digits '.' digits: the decimal number denoted (integer part and
\* fraction part, normalised; the rounding to the nearest float and underflow are
\* not modelled), or std::out_of_range when the number rounds beyond FLT_MAX
stof(lexeme) ==
    LET dot   == CHOOSE i \in 1..Len(lexeme) : lexeme[i] = "."
        whole == stripLeadingZeros(SubSeq(lexeme, 1, dot - 1))
        frac  == stripTrailingZeros(SubSeq(lexeme, dot + 1, Len(lexeme)))
    IN  IF Len(whole) > FloatMaxDigits
           \/ (Len(whole) = FloatMaxDigits /\ digitsGeq(whole, FloatOverflow))
        THEN [exc |-> "out_of_range", value |-> << >>]
        ELSE [exc |-> "none", value |-> [whole |-> whole, frac |-> frac]]

----------------------------------------------------------------------------
(* Parser.  p is the parser's state: current_ plus what the run has logged, *)
(* thrown and caught so far.  Every parsing operator returns                *)
(*   [p, node, exc, err]: the state it leaves, the node it returns, and the *)
(* exception that leaves it ("none", "ParseError" with err, "out_of_range").*)
(* Two fields observe the run: recovered holds, for each synchronize() a    *)
(* catch clause has run, the cursor where the ParseError was raised and the *)
(* cursor it left; declared holds, for each declaration() that has          *)
(* returned, the cursor at its entry and at its return.                     *)

ParserInit == [current |-> 0, statements |-> << >>, log |-> << >>,
               caught |-> 0, raised |-> 0, invalid |-> 0,
               recovered |-> {}, declared |-> {}]

NoError == [message |-> "", at |-> << >>, loc |-> [line |-> 0, column |-> 0]]

Ok(p, node) == [p |-> p, node |-> node, exc |-> "none", err |-> NoError]

\* Parser::error(token, message): the ParseError object
error(token, message) ==
    [message |-> message,
     at |-> IF token.type = "END_OF_FILE" THEN <<"EOF">> ELSE token.lexeme,
     loc |-> Loc(token)]

\* throw error(token, message);
Throw(p, token, message) ==
    [p |-> [p EXCEPT !.raised = @ + 1], node |-> Null, exc |-> "ParseError",
     err |-> error(token, message)]

\* an exception other than ParseError leaving a library call
ThrowOther(p, what) == [p |-> p, node |-> Null, exc |-> what, err |-> NoError]

Parser_peek(toks, p) == toks[p.current + 1]

Parser_previous(toks, p) == toks[p.current]

Parser_isAtEnd(toks, p) == Parser_peek(toks, p).type = "END_OF_FILE"

Parser_advance(toks, p) ==
    IF ~Parser_isAtEnd(toks, p) THEN [p EXCEPT !.current = @ + 1] ELSE p

check(toks, p, type) ==
    IF Parser_isAtEnd(toks, p) THEN FALSE ELSE Parser_peek(toks, p).type = type

\* match(initializer_list): whether one of the types matches (the cursor then advances)
checkAny(toks, p, types) == \E t \in types : check(toks, p, t)

consume(toks, p, type, message) ==
    IF check(toks, p, type)
    THEN Ok(Parser_advance(toks, p), Parser_peek(toks, p))
    ELSE Throw(p, Parser_peek(toks, p), message)

SyncStart == {"INT", "FLOAT", "IF", "WHILE", "RETURN"}

\* the while loop of synchronize
RECURSIVE synchronizeLoop(_, _)
synchronizeLoop(toks, p0) ==
    Let(p0, LAMBDA p :
        IF Parser_isAtEnd(toks, p) THEN p
        ELSE IF Parser_previous(toks, p).type = "SEMICOLON" THEN p
        ELSE IF Parser_peek(toks, p).type \in SyncStart THEN p
        ELSE synchronizeLoop(toks, Parser_advance(toks, p)))

synchronize(toks, p) == synchronizeLoop(toks, Parser_advance(toks, p))

\* r is the result of a parsing call: an exception leaving the call leaves the
\* caller too, otherwise the caller goes on with F
Then(r, F(_)) ==
    CHOOSE y \in {IF x.exc # "none" THEN x ELSE F(x) : x \in {r}} : TRUE

RECURSIVE declaration(_, _), declarationBody(_, _), varDeclaration(_, _),
          functionDeclaration(_, _), parameterList(_, _, _), statement(_, _),
          expressionStatement(_, _), ifStatement(_, _), whileStatement(_, _),
          returnStatement(_, _), block(_, _), blockLoop(_, _, _),
          declarationTry(_, _), expression(_, _), assignment(_, _),
          binaryLevel(_, _, _),
          binaryOperand(_, _, _), binaryFold(_, _, _), binaryReturn(_, _, _, _),
          unary(_, _), call(_, _),
          callLoop(_, _), finishCall(_, _, _), argumentList(_, _, _), primary(_, _)

primary(toks, p) ==
    LET t == Parser_peek(toks, p)
        a == Parser_advance(toks, p)
    IN  CASE check(toks, p, "INTEGER_LITERAL") ->
                Let(stoi(t.lexeme), LAMBDA v :
                    IF v.exc # "none" THEN ThrowOther(a, v.exc)
                    ELSE Ok(a, IntegerLiteral(v.value, Loc(t))))
          [] check(toks, p, "FLOAT_LITERAL") ->
                Let(stof(t.lexeme), LAMBDA v :
                    IF v.exc # "none" THEN ThrowOther(a, v.exc)
                    ELSE Ok(a, FloatLiteral(v.value, Loc(t))))
          [] check(toks, p, "STRING_LITERAL") -> Ok(a, StringLiteral(t.lexeme, Loc(t)))
          [] check(toks, p, "IDENTIFIER") -> Ok(a, VariableExpression(t.lexeme, Loc(t)))
          [] check(toks, p, "LEFT_PAREN") ->
                Then(expression(toks, a), LAMBDA e :
                Then(consume(toks, e.p, "RIGHT_PAREN", "Expect ')' after expression."),
                     LAMBDA c : Ok(c.p, e.node)))
          [] OTHER -> Throw(p, t, "Expect expression.")

\* the do-while loop of finishCall; args are the arguments parsed so far
argumentList(toks, p, args0) ==
    Let(args0, LAMBDA args :
    Then(expression(toks, p), LAMBDA e :
        IF check(toks, e.p, "COMMA")
        THEN argumentList(toks, Parser_advance(toks, e.p), Append(args, e.node))
        ELSE Ok(e.p, Append(args, e.node))))

finishCall(toks, p, callee) ==
    Then(IF ~check(toks, p, "RIGHT_PAREN") THEN argumentList(toks, p, << >>)
         ELSE Ok(p, << >>), LAMBDA as :
    Then(consume(toks, as.p, "RIGHT_PAREN", "Expect ')' after arguments."), LAMBDA c :
        IF callee.kind = "VariableExpression"
        THEN Ok(c.p, CallExpression(callee.name, as.node, Loc(c.node)))
        ELSE Throw(c.p, c.node, "Expected variable as function call target.")))

\* the while (true) loop of call; r0 is the result holding expr so far
callLoop(toks, r0) ==
    Then(r0, LAMBDA r :
        IF check(toks, r.p, "LEFT_PAREN")
        THEN callLoop(toks, finishCall(toks, Parser_advance(toks, r.p), r.node))
        ELSE r)

call(toks, p) == callLoop(toks, primary(toks, p))

unary(toks, p) ==
    IF checkAny(toks, p, {"MINUS", "NOT"})
    THEN LET op == Parser_peek(toks, p) IN
         Then(unary(toks, Parser_advance(toks, p)), LAMBDA r :
              Ok(r.p, UnaryExpression(op.type, r.node, Loc(op))))
    ELSE call(toks, p)

\* the operators each binary level folds over
LevelOps(level) ==
    CASE level = "logicalOr"  -> {"OR"}
      [] level = "logicalAnd" -> {"AND"}
      [] level = "equality"   -> {"EQUAL", "NOT_EQUAL"}
      [] level = "comparison" -> {"LESS", "LESS_EQUAL", "GREATER", "GREATER_EQUAL"}
      [] level = "term"       -> {"PLUS", "MINUS"}
      [] level = "factor"     -> {"MULTIPLY", "DIVIDE", "MODULO"}

\* the level whose function calls the function of `level` for its operands
CallerLevel(level) ==
    CASE level = "factor"     -> "term"
      [] level = "term"       -> "comparison"
      [] level = "comparison" -> "equality"
      [] level = "equality"   -> "logicalAnd"
      [] level = "logicalAnd" -> "logicalOr"

\* an operand call that parses the right operand at the level of the operator
binaryOperand_same(toks, p, level) == binaryLevel(toks, p, level)

\* the operand call of a binary level: the function of the next-higher level
binaryOperand(toks, p, level) ==
    CASE level = "factor"     -> unary(toks, p)
      [] level = "term"       -> binaryLevel(toks, p, "factor")
      [] level = "comparison" -> binaryLevel(toks, p, "term")
      [] level = "equality"   -> binaryLevel(toks, p, "comparison")
      [] level = "logicalAnd" -> binaryLevel(toks, p, "equality")
      [] level = "logicalOr"  -> binaryLevel(toks, p, "logicalAnd")

\* the loop `while (match(ops)) { right = operand(); expr = Binary(expr, op, right); }`
\* of a binary level; r0 is the result holding expr so far
binaryFold(toks, r0, level) ==
    Then(r0, LAMBDA r :
        IF checkAny(toks, r.p, LevelOps(level))
        THEN LET op == Parser_peek(toks, r.p) IN
             Then(binaryOperand(toks, Parser_advance(toks, r.p), level), LAMBDA right :
                  binaryFold(toks,
                      Ok(right.p, BinaryExpression(r.node, op.type, right.node, Loc(op))),
                      level))
        ELSE r)

\* the loops of the levels from `level` out to `last`, run on the way back from the
\* chain of first-operand calls: r0 is what the function of the level above `level`
\* has returned to the function of `level`
binaryReturn(toks, r0, level, last) ==
    Let(binaryFold(toks, r0, level), LAMBDA r :
        IF level = last THEN r
        ELSE binaryReturn(toks, r, CallerLevel(level), last))

\* logicalOr, logicalAnd, equality, comparison, term, factor: each first calls the
\* next-higher level, so the chain of first-operand calls ends in unary; the loops
\* then run from factor out to `level`
binaryLevel(toks, p, level) == binaryReturn(toks, unary(toks, p), "factor", level)

logicalOr(toks, p) == binaryLevel(toks, p, "logicalOr")

assignment(toks, p) ==
    Then(logicalOr(toks, p), LAMBDA e :
        IF check(toks, e.p, "ASSIGN")
        THEN LET equals == Parser_peek(toks, e.p) IN
             Then(assignment(toks, Parser_advance(toks, e.p)), LAMBDA v :
                  IF e.node.kind = "VariableExpression"
                  THEN Ok(v.p, BinaryExpression(e.node, "ASSIGN", v.node, Loc(equals)))
                  \* error(equals, "Invalid assignment target."): built, not thrown
                  ELSE Ok([v.p EXCEPT !.invalid = @ + 1], e.node))
        ELSE e)

expression(toks, p) == assignment(toks, p)

expressionStatement(toks, p) ==
    Then(expression(toks, p), LAMBDA e :
    Then(consume(toks, e.p, "SEMICOLON", "Expect ';' after expression."), LAMBDA c :
         Ok(c.p, ExpressionStatement(e.node))))

ifStatement(toks, p) ==
    LET l == consume(toks, p, "LEFT_PAREN", "Expect '(' after 'if'.") IN
    IF l.exc # "none" THEN l ELSE
    Then(expression(toks, l.p), LAMBDA cond :
    LET r == consume(toks, cond.p, "RIGHT_PAREN", "Expect ')' after if condition.") IN
    IF r.exc # "none" THEN r ELSE
    Then(statement(toks, r.p), LAMBDA th :
    Then(IF check(toks, th.p, "ELSE")
         THEN statement(toks, Parser_advance(toks, th.p))
         ELSE Ok(th.p, Null), LAMBDA el :
         Ok(el.p, IfStatement(cond.node, th.node, el.node,
                              Loc(Parser_previous(toks, el.p)))))))

whileStatement(toks, p) ==
    LET l == consume(toks, p, "LEFT_PAREN", "Expect '(' after 'while'.") IN
    IF l.exc # "none" THEN l ELSE
    Then(expression(toks, l.p), LAMBDA cond :
    LET r == consume(toks, cond.p, "RIGHT_PAREN", "Expect ')' after while condition.") IN
    IF r.exc # "none" THEN r ELSE
    Then(statement(toks, r.p), LAMBDA body :
         Ok(body.p, WhileStatement(cond.node, body.node,
                                   Loc(Parser_previous(toks, body.p))))))

returnStatement(toks, p) ==
    LET keyword == Parser_previous(toks, p) IN
    Then(IF ~check(toks, p, "SEMICOLON") THEN expression(toks, p) ELSE Ok(p, Null),
         LAMBDA v :
    Then(consume(toks, v.p, "SEMICOLON", "Expect ';' after return value."), LAMBDA c :
         Ok(c.p, ReturnStatement(v.node, Loc(keyword)))))

\* the while loop of block; stmts are the statements collected so far
blockLoop(toks, p, stmts) ==
    IF ~check(toks, p, "RIGHT_BRACE") /\ ~Parser_isAtEnd(toks, p)
    THEN Then(declaration(toks, p), LAMBDA d :
              blockLoop(toks, d.p, Append(stmts, d.node)))
    ELSE Ok(p, stmts)

block(toks, p) ==
    LET location == Loc(Parser_previous(toks, p)) IN
    Then(blockLoop(toks, p, << >>), LAMBDA ss :
    Then(consume(toks, ss.p, "RIGHT_BRACE", "Expect '}' after block."), LAMBDA c :
         Ok(c.p, BlockStatement(ss.node, location))))

statement(toks, p) ==
    CASE check(toks, p, "IF") -> ifStatement(toks, Parser_advance(toks, p))
      [] check(toks, p, "WHILE") -> whileStatement(toks, Parser_advance(toks, p))
      [] check(toks, p, "RETURN") -> returnStatement(toks, Parser_advance(toks, p))
      [] check(toks, p, "LEFT_BRACE") -> block(toks, Parser_advance(toks, p))
      [] OTHER -> expressionStatement(toks, p)

varDeclaration(toks, p) ==
    LET type == Parser_previous(toks, p).lexeme
        name == consume(toks, p, "IDENTIFIER", "Expect variable name.")
    IN  IF name.exc # "none" THEN name ELSE
        Then(IF check(toks, name.p, "ASSIGN")
             THEN expression(toks, Parser_advance(toks, name.p))
             ELSE Ok(name.p, Null), LAMBDA init :
        Then(consume(toks, init.p, "SEMICOLON", "Expect ';' after variable declaration."),
             LAMBDA c :
             Ok(c.p, VarDeclaration(type, name.node.lexeme, init.node, Loc(name.node)))))

\* the do-while loop of functionDeclaration; params are the parameters parsed so far
parameterList(toks, p0, params0) ==
    Let2(p0, params0, LAMBDA p, params :
    IF ~checkAny(toks, p, {"INT", "FLOAT"})
    THEN Throw(p, Parser_peek(toks, p), "Expect parameter type.")
    ELSE LET paramType == IF check(toks, p, "INT") THEN Str_int ELSE Str_float IN
         Then(consume(toks, Parser_advance(toks, p), "IDENTIFIER",
                      "Expect parameter name."), LAMBDA n :
              LET ps == Append(params,
                               FunctionParameter(paramType, n.node.lexeme, Loc(n.node)))
              IN  IF check(toks, n.p, "COMMA")
                  THEN parameterList(toks, Parser_advance(toks, n.p), ps)
                  ELSE Ok(n.p, ps)))

functionDeclaration(toks, p) ==
    LET returnType == Parser_previous(toks, p).lexeme
        name == consume(toks, p, "IDENTIFIER", "Expect function name.")
        l == consume(toks, name.p, "LEFT_PAREN", "Expect '(' after function name.")
    IN  IF name.exc # "none" THEN name ELSE
        IF l.exc # "none" THEN l ELSE
        Then(IF ~check(toks, l.p, "RIGHT_PAREN") THEN parameterList(toks, l.p, << >>)
             ELSE Ok(l.p, << >>), LAMBDA ps :
        LET r == consume(toks, ps.p, "RIGHT_PAREN", "Expect ')' after parameters.")
            b == consume(toks, r.p, "LEFT_BRACE", "Expect '{' before function body.")
        IN  IF r.exc # "none" THEN r ELSE
            IF b.exc # "none" THEN b ELSE
            Then(block(toks, b.p), LAMBDA body :
                 Ok(body.p, FunctionDeclaration(returnType, name.node.lexeme, ps.node,
                                                body.node, Loc(name.node)))))

\* the try block of declaration
\* a dispatch without the lookahead: int and float always start a variable
declarationBody_noLookahead(toks, p) ==
    LET a == Parser_advance(toks, p) IN
    CASE checkAny(toks, p, {"INT", "FLOAT"}) -> varDeclaration(toks, a)
      [] check(toks, p, "VOID") -> functionDeclaration(toks, a)
      [] OTHER -> statement(toks, p)

declarationBody(toks, p) ==
    LET a == Parser_advance(toks, p) IN
    CASE checkAny(toks, p, {"INT", "FLOAT"})
            /\ check(toks, a, "IDENTIFIER") /\ toks[a.current + 2].type = "LEFT_PAREN" ->
            functionDeclaration(toks, a)
      [] checkAny(toks, p, {"INT", "FLOAT"}) -> varDeclaration(toks, a)
      [] check(toks, p, "VOID") -> functionDeclaration(toks, a)
      [] OTHER -> statement(toks, p)

\* what the catch clause of declaration writes to cerr: nothing
declarationLog(log, err) == log

\* a recovery that leaves the cursor where it is when the ParseError was raised at
\* the first token
recover_stay(toks, p) ==
    IF p.current = 0
    THEN [p EXCEPT !.recovered = @ \cup {[from |-> p.current, to |-> p.current]}]
    ELSE Let(synchronize(toks, p), LAMBDA q :
             [q EXCEPT !.recovered = @ \cup {[from |-> p.current, to |-> q.current]}])

\* synchronize() as a catch clause calls it, observed: the cursor where the
\* ParseError was raised and the cursor synchronize leaves
recover(toks, p) ==
    Let(synchronize(toks, p), LAMBDA q :
        [q EXCEPT !.recovered = @ \cup {[from |-> p.current, to |-> q.current]}])

\* a declaration() without the catch clause
declarationTry_uncaught(toks, p) == declarationBody(toks, p)

\* declaration: the try block, and catch (const ParseError&) { synchronize(); return nullptr; }
declarationTry(toks, p) ==
    Let(declarationBody(toks, p), LAMBDA r :
        IF r.exc = "ParseError"
        THEN Ok(recover(toks, [r.p EXCEPT !.caught = @ + 1,
                                          !.log = declarationLog(@, r.err)]),
                Null)
        ELSE r)

\* declaration(), observed when it returns: the cursor at its entry and at its return
declaration(toks, p) ==
    Let(declarationTry(toks, p), LAMBDA d :
        IF d.exc = "none"
        THEN [d EXCEPT !.p.declared = @ \cup {[from |-> p.current, to |-> d.p.current]}]
        ELSE d)

\* what the catch clause of parse writes to cerr
parseLog(log, err) == Append(log, <<"Parse error: ", err>>)

\* one iteration of the loop of parse, inside its try block: the parser state
\* after it and whether parse goes on ("parsing"), returns ("parsed") or is left
\* by an exception it does not catch
parseStep(toks, p) ==
    Let(declaration(toks, p), LAMBDA d :
        IF d.exc = "none"
        THEN [p |-> [d.p EXCEPT !.statements = Append(@, d.node)], pc |-> "parsing"]
        ELSE IF d.exc = "ParseError"
        THEN [p |-> recover(toks, [d.p EXCEPT !.log = parseLog(@, d.err)]),
              pc |-> "parsed"]
        ELSE [p |-> d.p, pc |-> d.exc])

\* parse as a function of the tokens: [p, pc], pc "parsed" or the exception's name
RECURSIVE parseLoop(_, _)
parseLoop(toks, p) ==
    IF Parser_isAtEnd(toks, p) THEN [p |-> p, pc |-> "parsed"]
    ELSE Let(parseStep(toks, p), LAMBDA s :
             IF s.pc = "parsing" THEN parseLoop(toks, s.p) ELSE s)

parse(toks) == parseLoop(toks, ParserInit)

----------------------------------------------------------------------------
(* Semantic analyzer (semantic_analyzer.cpp).  s is the analyzer's state:   *)
(*   scopes  the chain of Scope objects, global scope first, currentScope_  *)
(*           last; a Scope is the set of the Symbols of its map             *)
(*   ret     currentFunctionReturnType_ (<< >> is the empty string)         *)
(*   errors  errors_                                                        *)
(*   fault   whether a null statement pointer has been dereferenced         *)
(*   obs     for every visit of a call, declaration, block, binary          *)
(*           expression or return that has returned: the node, the scope    *)
(*           chain at entry and return, the function return type, the       *)
(*           diagnostics added                                              *)
(*   next    the position of the loop of visit(Program) in the statements   *)
(*   results the errors_ each completed analyze() call has left             *)
(* Types and names are character sequences, as lexemes are.                 *)

Str_string == <<"s", "t", "r", "i", "n", "g">>
Str_unknown == <<"u", "n", "k", "n", "o", "w", "n">>
Str_print == <<"p", "r", "i", "n", "t">>

Symbol(name, type, symbolType, paramTypes) ==
    [name |-> name, type |-> type, symbolType |-> symbolType, paramTypes |-> paramTypes]

\* the null Symbol*
NoSymbol == Symbol(<< >>, << >>, "none", << >>)

\* symbols_[symbol.name] = symbol;
Scope_addSymbol(scope, symbol) == {y \in scope : y.name # symbol.name} \cup {symbol}

\* a lookup that reads the scope at position i only, never its parents
Scope_findSymbol_local(scopes, i, name) ==
    IF i = 0 \/ {y \in scopes[i] : y.name = name} = {} THEN NoSymbol
    ELSE CHOOSE y \in scopes[i] : y.name = name

\* Scope::findSymbol from the scope at position i of the chain up through its parents
RECURSIVE Scope_findSymbol(_, _, _)
Scope_findSymbol(scopes, i, name) ==
    IF i = 0 THEN NoSymbol
    ELSE LET found == {y \in scopes[i] : y.name = name}
         IN  IF found # {} THEN CHOOSE y \in found : TRUE
             ELSE Scope_findSymbol(scopes, i - 1, name)

\* currentScope_->findSymbol(name)
findSymbol(s, name) == Scope_findSymbol(s.scopes, Len(s.scopes), name)

\* currentScope_->addSymbol(symbol)
addSymbol(s, symbol) ==
    [s EXCEPT !.scopes[Len(s.scopes)] = Scope_addSymbol(@, symbol)]

SemanticAnalyzer_enterScope(s) == [s EXCEPT !.scopes = Append(@, {})]

\* an exit that leaves the frame in place
exitScope_keep(s) == s

SemanticAnalyzer_exitScope(s) ==
    IF s.scopes # << >> THEN [s EXCEPT !.scopes = SubSeq(@, 1, Len(@) - 1)] ELSE s

\* the constructor: currentScope_(nullptr), then enterScope()
SemanticAnalyzerInit ==
    SemanticAnalyzer_enterScope([scopes |-> << >>, ret |-> << >>, errors |-> << >>,
                                 fault |-> FALSE, obs |-> {}, next |-> 0,
                                 results |-> << >>])

\* a diagnostic message: its fixed text and the strings spliced into it
Message(text, args) == [text |-> text, args |-> args]

addError(s, message, loc) ==
    [s EXCEPT !.errors = Append(@, [message |-> message, loc |-> loc])]

\* std::to_string of a size
RECURSIVE to_string(_)
to_string(n) ==
    LET d == <<"0", "1", "2", "3", "4", "5", "6", "7", "8", "9">>[(n % 10) + 1]
    IN  IF n < 10 THEN <<d>> ELSE Append(to_string(n \div 10), d)

tokenTypeToString(type) ==
    CASE type = "PLUS" -> <<"+">>
      [] type = "MINUS" -> <<"-">>
      [] type = "MULTIPLY" -> <<"*">>
      [] type = "DIVIDE" -> <<"/">>
      [] type = "MODULO" -> <<"%">>
      [] type = "ASSIGN" -> <<"=">>
      [] type = "EQUAL" -> <<"=", "=">>
      [] type = "NOT_EQUAL" -> <<"!", "=">>
      [] type = "LESS" -> <<"<">>
      [] type = "LESS_EQUAL" -> <<"<", "=">>
      [] type = "GREATER" -> <<">">>
      [] type = "GREATER_EQUAL" -> <<">", "=">>
      [] type = "AND" -> <<"&", "&">>
      [] type = "OR" -> <<"|", "|">>
      [] type = "NOT" -> <<"!">>
      [] OTHER -> Str_unknown

\* a compatibility that also lets a float into an int
isTypeCompatible_symmetric(type1, type2) ==
    type1 = type2 \/ {type1, type2} = {Str_int, Str_float}

isTypeCompatible(type1, type2) ==
    IF type1 = type2 THEN TRUE
    ELSE IF type1 = Str_int /\ type2 = Str_float THEN TRUE
    ELSE FALSE

getCommonType(type1, type2) ==
    IF type1 = Str_float \/ type2 = Str_float THEN Str_float
    ELSE IF type1 = Str_int /\ type2 = Str_int THEN Str_int
    ELSE Str_unknown

ArithmeticOps == {"PLUS", "MINUS", "MULTIPLY", "DIVIDE", "MODULO"}
ComparisonOps == {"EQUAL", "NOT_EQUAL", "LESS", "LESS_EQUAL", "GREATER", "GREATER_EQUAL"}
LogicalOps == {"AND", "OR"}

RECURSIVE getExpressionType(_, _)
getExpressionType(s, expr) ==
    CASE expr.kind = "IntegerLiteral" -> Str_int
      [] expr.kind = "FloatLiteral" -> Str_float
      [] expr.kind = "StringLiteral" -> Str_string
      [] expr.kind = "VariableExpression" ->
            LET symbol == findSymbol(s, expr.name)
            IN  IF symbol.symbolType = "VARIABLE" THEN symbol.type ELSE Str_unknown
      [] expr.kind = "BinaryExpression" ->
            IF expr.op \in ComparisonOps \cup LogicalOps THEN Str_int
            ELSE getCommonType(getExpressionType(s, expr.left),
                               getExpressionType(s, expr.right))
      [] expr.kind = "UnaryExpression" -> getExpressionType(s, expr.operand)
      [] expr.kind = "CallExpression" ->
            LET symbol == findSymbol(s, expr.callee)
            IN  IF symbol.symbolType = "FUNCTION" THEN symbol.type ELSE Str_unknown
      [] OTHER -> Str_unknown

\* the checks of visit(BinaryExpression) after both operands have been visited
checkBinary(s, node, leftType, rightType) ==
    LET mismatch == ~isTypeCompatible(leftType, rightType)
                    /\ ~isTypeCompatible(rightType, leftType)
        opText == tokenTypeToString(node.op)
    IN  IF node.op \in ArithmeticOps
        THEN IF leftType = Str_unknown \/ rightType = Str_unknown THEN s
             ELSE LET s1 == IF mismatch
                            THEN addError(s, Message("Type mismatch in binary expression",
                                                     <<leftType, opText, rightType>>),
                                          node.loc)
                            ELSE s
                  IN  IF node.op = "MODULO" /\ (leftType # Str_int \/ rightType # Str_int)
                      THEN addError(s1, Message("Modulo operation requires integer operands",
                                                << >>), node.loc)
                      ELSE s1
        ELSE IF node.op \in ComparisonOps
        THEN IF leftType = Str_unknown \/ rightType = Str_unknown THEN s
             ELSE IF mismatch
             THEN addError(s, Message("Type mismatch in comparison",
                                      <<leftType, opText, rightType>>), node.loc)
             ELSE s
        ELSE IF node.op \in LogicalOps
        THEN IF leftType # Str_int \/ rightType # Str_int
             THEN addError(s, Message("Logical operators require integer (boolean) operands",
                                      << >>), node.loc)
             ELSE s
        ELSE IF node.op = "ASSIGN"
        THEN IF node.left.kind = "VariableExpression"
             THEN IF ~isTypeCompatible(rightType, leftType)
                  THEN addError(s, Message("Cannot assign", <<rightType, leftType>>),
                                node.loc)
                  ELSE s
             ELSE addError(s, Message("Left side of assignment must be a variable", << >>),
                           node.loc)
        ELSE s

\* the checks of visit(UnaryExpression) after the operand has been visited
checkUnary(s, node, operandType) ==
    IF node.op = "MINUS"
    THEN IF operandType # Str_int /\ operandType # Str_float
         THEN addError(s, Message("Unary minus requires numeric operand", << >>), node.loc)
         ELSE s
    ELSE IF node.op = "NOT"
    THEN IF operandType # Str_int
         THEN addError(s, Message("Logical NOT requires integer (boolean) operand", << >>),
                       node.loc)
         ELSE s
    ELSE s

\* the Symbol visit(FunctionDeclaration) builds for the function
FunctionSymbol(node) ==
    Symbol(node.name, node.returnType, "FUNCTION",
           [i \in 1..Len(node.parameters) |-> node.parameters[i].type])

\* the loop adding the parameters to the function's scope
RECURSIVE addParameters(_, _, _)
addParameters(s0, parameters, i) ==
    Let(s0, LAMBDA s :
        IF i > Len(parameters) THEN s
        ELSE addParameters(addSymbol(s, Symbol(parameters[i].name, parameters[i].type,
                                               "VARIABLE", << >>)),
                           parameters, i + 1))

RECURSIVE SemanticAnalyzer_visit(_, _), SemanticAnalyzer_handler(_, _),
          visitStatements(_, _, _), visitArguments(_, _, _, _), checkArity(_, _, _)

\* the classes of node whose visits are observed
ObservedKinds ==
    {"CallExpression", "VarDeclaration", "BlockStatement", "FunctionDeclaration",
     "BinaryExpression", "ReturnStatement"}

\* what is observed when the visit of a call, declaration, block, binary
\* expression or return returns: the node, the scope chain at its entry and at
\* its return, the return type of the enclosing function, and the diagnostics added
Observation(node, s, r) ==
    [kind |-> node.kind, node |-> node,
     name |-> CASE node.kind \in {"VarDeclaration", "FunctionDeclaration"} -> node.name
                [] node.kind = "CallExpression" -> node.callee
                [] OTHER -> << >>,
     loc |-> node.loc, scopesIn |-> s.scopes, scopesOut |-> r.scopes, ret |-> s.ret,
     added |-> SubSeq(r.errors, Len(s.errors) + 1, Len(r.errors))]

\* node->accept(*this): the visit of the node's class; nothing runs after a null
\* pointer dereference
SemanticAnalyzer_visit(s0, node) ==
    Let(s0, LAMBDA s :
        IF s.fault THEN s
        ELSE IF node.kind \in ObservedKinds
        THEN Let(SemanticAnalyzer_handler(s, node), LAMBDA r :
                 IF r.fault THEN r
                 ELSE [r EXCEPT !.obs = @ \cup {Observation(node, s, r)}])
        ELSE SemanticAnalyzer_handler(s, node))

\* the visit functions, by the class of the node; a null node is a null pointer
\* dereference
SemanticAnalyzer_handler(s, node) ==
         CASE node.kind = "null" -> [s EXCEPT !.fault = TRUE]
      [] node.kind \in {"IntegerLiteral", "FloatLiteral", "StringLiteral"} -> s
      [] node.kind = "VariableExpression" ->
            LET symbol == findSymbol(s, node.name)
            IN  IF symbol = NoSymbol
                THEN addError(s, Message("Undefined variable", <<node.name>>), node.loc)
                ELSE IF symbol.symbolType # "VARIABLE"
                THEN addError(s, Message("is not a variable", <<node.name>>), node.loc)
                ELSE s
      [] node.kind = "BinaryExpression" ->
            Let(SemanticAnalyzer_visit(SemanticAnalyzer_visit(s, node.left), node.right),
                LAMBDA v :
                    IF v.fault THEN v
                    ELSE checkBinary(v, node, getExpressionType(v, node.left),
                                     getExpressionType(v, node.right)))
      [] node.kind = "UnaryExpression" ->
            Let(SemanticAnalyzer_visit(s, node.operand), LAMBDA v :
                    IF v.fault THEN v
                    ELSE checkUnary(v, node, getExpressionType(v, node.operand)))
      [] node.kind = "CallExpression" ->
            LET symbol == findSymbol(s, node.callee)
            IN  IF symbol = NoSymbol
                THEN addError(s, Message("Undefined function", <<node.callee>>), node.loc)
                ELSE IF symbol.symbolType # "FUNCTION"
                THEN addError(s, Message("is not a function", <<node.callee>>), node.loc)
                ELSE checkArity(s, node, symbol)
      [] node.kind = "ExpressionStatement" -> SemanticAnalyzer_visit(s, node.expression)
      [] node.kind = "VarDeclaration" ->
            IF findSymbol(s, node.name).symbolType = "VARIABLE"
            THEN addError(s, Message("Redefinition of variable", <<node.name>>), node.loc)
            ELSE Let(addSymbol(s, Symbol(node.name, node.type, "VARIABLE", << >>)),
                     LAMBDA a :
                 IF node.initializer = Null THEN a
                 ELSE Let(SemanticAnalyzer_visit(a, node.initializer), LAMBDA v :
                      LET initType == getExpressionType(v, node.initializer)
                      IN  IF ~v.fault /\ ~isTypeCompatible(initType, node.type)
                          THEN addError(v, Message("Cannot initialize",
                                                   <<node.type, initType>>), node.loc)
                          ELSE v))
      [] node.kind = "BlockStatement" ->
            Let(visitStatements(SemanticAnalyzer_enterScope(s), node.statements, 1),
                LAMBDA v : IF v.fault THEN v ELSE SemanticAnalyzer_exitScope(v))
      [] node.kind = "IfStatement" ->
            Let(SemanticAnalyzer_visit(s, node.condition), LAMBDA c :
            Let(IF ~c.fault /\ getExpressionType(c, node.condition) # Str_int
                THEN addError(c, Message(
                        "If condition must be an integer (boolean) expression", << >>),
                        node.loc)
                ELSE c, LAMBDA e :
            Let(SemanticAnalyzer_visit(e, node.thenBranch), LAMBDA t :
                IF node.elseBranch # Null
                THEN SemanticAnalyzer_visit(t, node.elseBranch)
                ELSE t)))
      [] node.kind = "WhileStatement" ->
            Let(SemanticAnalyzer_visit(s, node.condition), LAMBDA c :
            Let(IF ~c.fault /\ getExpressionType(c, node.condition) # Str_int
                THEN addError(c, Message(
                        "While condition must be an integer (boolean) expression", << >>),
                        node.loc)
                ELSE c, LAMBDA e :
                SemanticAnalyzer_visit(e, node.body)))
      [] node.kind = "ReturnStatement" ->
            IF s.ret = << >>
            THEN addError(s, Message("Return statement outside of function", << >>),
                          node.loc)
            ELSE IF node.value # Null
            THEN Let(SemanticAnalyzer_visit(s, node.value), LAMBDA v :
                 LET valueType == getExpressionType(v, node.value)
                 IN  IF ~v.fault /\ ~isTypeCompatible(valueType, v.ret)
                     THEN addError(v, Message("Cannot return from function returning",
                                              <<valueType, v.ret>>), node.loc)
                     ELSE v)
            ELSE IF s.ret # Str_void
            THEN addError(s, Message("Function returning must return a value", <<s.ret>>),
                          node.loc)
            ELSE s
      [] node.kind = "FunctionDeclaration" ->
            IF findSymbol(s, node.name) # NoSymbol
            THEN addError(s, Message("Redefinition of function", <<node.name>>), node.loc)
            ELSE LET prevReturnType == s.ret IN
                 Let(addParameters(
                        SemanticAnalyzer_enterScope(
                            [addSymbol(s, FunctionSymbol(node))
                                EXCEPT !.ret = node.returnType]),
                        node.parameters, 1), LAMBDA a :
                 Let(SemanticAnalyzer_visit(a, node.body), LAMBDA b :
                     IF b.fault THEN b
                     ELSE [SemanticAnalyzer_exitScope(b) EXCEPT !.ret = prevReturnType]))

\* a call check that records nothing and visits nothing
checkArity_silent(s, node, symbol) == s

\* visit(CallExpression) from the check of the number of arguments on
checkArity(s, node, symbol) ==
    IF Len(node.arguments) # Len(symbol.paramTypes)
    THEN addError(s, Message("expects arguments, but got",
                             <<node.callee, to_string(Len(symbol.paramTypes)),
                               to_string(Len(node.arguments))>>), node.loc)
    ELSE visitArguments(s, node, symbol, 1)

\* the loop `for (const auto& stmt : statements) stmt->accept(*this);` from position i
visitStatements(s0, statements, i) ==
    Let(s0, LAMBDA s :
        IF i > Len(statements) \/ s.fault THEN s
        ELSE visitStatements(SemanticAnalyzer_visit(s, statements[i]), statements, i + 1))

\* the loop of visit(CallExpression) over the arguments, from position i
visitArguments(s0, node, symbol, i) ==
    Let(s0, LAMBDA s :
        IF i > Len(node.arguments) \/ s.fault THEN s
        ELSE Let(SemanticAnalyzer_visit(s, node.arguments[i]), LAMBDA v :
             LET argType == getExpressionType(v, node.arguments[i])
             IN  visitArguments(
                    IF ~v.fault /\ ~isTypeCompatible(argType, symbol.paramTypes[i])
                    THEN addError(v, Message("Argument of function expects, but got",
                                             <<to_string(i), node.callee,
                                               symbol.paramTypes[i], argType>>),
                                  node.arguments[i].loc)
                    ELSE v,
                    node, symbol, i + 1)))

\* the loop `while (currentScope_ && currentScope_->getParent()) exitScope();`
RECURSIVE exitToGlobal(_)
exitToGlobal(s) ==
    IF Len(s.scopes) > 1 THEN exitToGlobal(SemanticAnalyzer_exitScope(s)) ELSE s

\* analyze up to the loop of visit(Program): the state is cleared as far as
\* analyze clears it, and visit(Program) adds the built-in print
analyzeBegin(s) ==
    [addSymbol([exitToGlobal(s) EXCEPT !.errors = << >>],
               Symbol(Str_print, Str_void, "FUNCTION", <<Str_int>>))
        EXCEPT !.next = 1]

----------------------------------------------------------------------------
(* IR builder (ir_builder.h, ir_builder.cpp).  The state of an IRBuilder is *)
(* a record:                                                                *)
(*   functions        the functions of module_, in the order added          *)
(*   blocks           every IRBasicBlock created, by position; a function   *)
(*                    holds the positions of its blocks, and a block made   *)
(*                    while currentFunction_ is null is in no function      *)
(*   currentFunction  position in functions of currentFunction_, 0 if null  *)
(*   currentBlock     position in blocks of currentBlock_, 0 if null        *)
(*   symbolTable      the IRIdentifiers of symbolTable_, one per name       *)
(*   valueStack       valueStack_, top last                                 *)
(*   labelCounter, tempCounter                                              *)
(*   fault            whether a null pointer has been dereferenced          *)
(*   obs              for every handler that has returned: the node's kind  *)
(*                    and valueStack_ at its entry and at its return        *)
(*   finished         for every visit(FunctionDeclaration) that has         *)
(*                    returned: the last block before and after the default *)
(*                    return                                                *)
(*   lowered          for each visit of an IfStatement, WhileStatement,     *)
(*                    BinaryExpression or VariableExpression that has       *)
(*                    returned: the node, and the builder at entry and at   *)
(*                    return                                                *)
(*   emptyPops        the values popValue has returned on an empty stack    *)
(*   next             the position of the loop of visit(Program)            *)
(*   results          the module as each completed build() call returned it *)
(*   dumps            the text of each of these modules                     *)

Str_t == <<"t">>
Str_entry == <<"e", "n", "t", "r", "y">>
Str_then == <<"t", "h", "e", "n">>
Str_else == <<"e", "l", "s", "e">>
Str_endif == <<"e", "n", "d", "i", "f">>
Str_while_cond == <<"w", "h", "i", "l", "e", ".", "c", "o", "n", "d">>
Str_while_body == <<"w", "h", "i", "l", "e", ".", "b", "o", "d", "y">>
Str_while_end == <<"w", "h", "i", "l", "e", ".", "e", "n", "d">>
Str_param == <<"p", "a", "r", "a", "m", ".">>

IRIntConstant(value) ==
    [kind |-> "IRIntConstant", name |-> << >>, type |-> "INT32", value |-> value]
IRFloatConstant(value) ==
    [kind |-> "IRFloatConstant", name |-> << >>, type |-> "FLOAT32", value |-> value]
IRIdentifier(name, type) ==
    [kind |-> "IRIdentifier", name |-> name, type |-> type, value |-> 0]
IRLabel(name) == [kind |-> "IRLabel", name |-> name, type |-> "LABEL", value |-> 0]

\* the null shared_ptr<IRValue>
nullptr == [kind |-> "nullptr", name |-> << >>, type |-> "VOID", value |-> 0]

IRInstruction(opcode, result, operands) ==
    [opcode |-> opcode, result |-> result, operands |-> operands]

IRBasicBlock(name) == [name |-> name, instructions |-> << >>]

IRFunctionParameter(name, type) == [name |-> name, type |-> type]

IRFunction(name, returnType, parameters) ==
    [name |-> name, returnType |-> returnType, parameters |-> parameters, blocks |-> << >>]

\* the constructor: an empty module, null currentFunction_ and currentBlock_
IRBuilderInit ==
    [functions |-> << >>, blocks |-> << >>, currentFunction |-> 0, currentBlock |-> 0,
     symbolTable |-> {}, valueStack |-> << >>, labelCounter |-> 0, tempCounter |-> 0,
     fault |-> FALSE, obs |-> {}, finished |-> {}, lowered |-> {}, emptyPops |-> {},
     next |-> 0, results |-> << >>, dumps |-> << >>]

\* the module as a caller reads it through the pointer build() returns
IRModule(b) ==
    [i \in 1..Len(b.functions) |->
        [b.functions[i] EXCEPT !.blocks = [j \in 1..Len(@) |-> b.blocks[@[j]]]]]

\* ir.cpp: the text of types, opcodes and values
irTypeToString(type) ==
    CASE type = "VOID" -> Str_void
      [] type = "INT32" -> <<"i", "3", "2">>
      [] type = "FLOAT32" -> <<"f", "3", "2">>
      [] type = "POINTER" -> <<"p", "t", "r">>
      [] type = "LABEL" -> <<"l", "a", "b", "e", "l">>
      [] OTHER -> <<"u", "n", "k", "n", "o", "w", "n">>

irOpcodeToString(opcode) ==
    CASE opcode = "ALLOCA" -> <<"a", "l", "l", "o", "c", "a">>
      [] opcode = "LOAD" -> <<"l", "o", "a", "d">>
      [] opcode = "STORE" -> <<"s", "t", "o", "r", "e">>
      [] opcode = "ADD" -> <<"a", "d", "d">>
      [] opcode = "SUB" -> <<"s", "u", "b">>
      [] opcode = "MUL" -> <<"m", "u", "l">>
      [] opcode = "DIV" -> <<"d", "i", "v">>
      [] opcode = "MOD" -> <<"m", "o", "d">>
      [] opcode = "NEG" -> <<"n", "e", "g">>
      [] opcode = "CMP_EQ" -> <<"c", "m", "p", "_", "e", "q">>
      [] opcode = "CMP_NE" -> <<"c", "m", "p", "_", "n", "e">>
      [] opcode = "CMP_LT" -> <<"c", "m", "p", "_", "l", "t">>
      [] opcode = "CMP_LE" -> <<"c", "m", "p", "_", "l", "e">>
      [] opcode = "CMP_GT" -> <<"c", "m", "p", "_", "g", "t">>
      [] opcode = "CMP_GE" -> <<"c", "m", "p", "_", "g", "e">>
      [] opcode = "AND" -> <<"a", "n", "d">>
      [] opcode = "OR" -> <<"o", "r">>
      [] opcode = "NOT" -> <<"n", "o", "t">>
      [] opcode = "JMP" -> <<"j", "m", "p">>
      [] opcode = "JMP_IF" -> <<"j", "m", "p", "_", "i", "f">>
      [] opcode = "CALL" -> <<"c", "a", "l", "l">>
      [] opcode = "RET" -> <<"r", "e", "t">>
      [] opcode = "INT_TO_FLOAT" -> <<"i", "n", "t", "_", "t", "o", "_", "f", "l", "o", "a", "t">>
      [] opcode = "FLOAT_TO_INT" -> <<"f", "l", "o", "a", "t", "_", "t", "o", "_", "i", "n", "t">>
      [] opcode = "PHI" -> <<"p", "h", "i">>
      [] opcode = "LABEL" -> <<"l", "a", "b", "e", "l">>
      [] opcode = "COMMENT" -> <<"c", "o", "m", "m", "e", "n", "t">>
      [] OTHER -> <<"u", "n", "k", "n", "o", "w", "n">>

\* oss << std::fixed << std::setprecision(6) << value_: the integer part, the point
\* and six digits; the numbers of the programs have at most six significant digits,
\* which a float keeps, so the digits are those of the literal and zeros
IRFloatConstant_toString(value) ==
    (IF value.whole = << >> THEN <<"0">> ELSE value.whole) \o <<".">>
        \o [i \in 1..6 |-> IF i <= Len(value.frac) THEN value.frac[i] ELSE "0"]

IRValue_toString(v) ==
    CASE v.kind = "IRIntConstant" -> to_string(v.value)
      [] v.kind = "IRFloatConstant" -> IRFloatConstant_toString(v.value)
      [] v.kind = "IRIdentifier" -> <<"%">> \o v.name
      [] v.kind = "IRLabel" -> v.name \o <<":">>

\* the loop of IRInstruction::toString over the operands, from position i
RECURSIVE operandsToString(_, _)
operandsToString(operands, i) ==
    IF i > Len(operands) THEN << >>
    ELSE (IF i > 1 THEN <<",", " ">> ELSE << >>) \o IRValue_toString(operands[i])
            \o operandsToString(operands, i + 1)

IRInstruction_toString(instruction) ==
    (IF instruction.result # nullptr
     THEN IRValue_toString(instruction.result) \o <<" ", "=", " ">> ELSE << >>)
        \o irOpcodeToString(instruction.opcode)
        \o (IF instruction.operands # << >>
            THEN <<" ">> \o operandsToString(instruction.operands, 1) ELSE << >>)

\* the loop of IRBasicBlock::toString over the instructions, from position i, each
\* after the indentation given
RECURSIVE instructionsToString(_, _, _)
instructionsToString(instructions, indent, i) ==
    IF i > Len(instructions) THEN << >>
    ELSE indent \o IRInstruction_toString(instructions[i]) \o <<"\n">>
            \o instructionsToString(instructions, indent, i + 1)

\* a block text with the instructions at the left margin
IRBasicBlock_toString_flush(blk) ==
    blk.name \o <<":", "\n">> \o instructionsToString(blk.instructions, << >>, 1)

IRBasicBlock_toString(blk) ==
    blk.name \o <<":", "\n">>
        \o instructionsToString(blk.instructions, <<" ", " ">>, 1)

\* the loops of IRFunction::toString over the parameters and over the blocks
RECURSIVE parametersToString(_, _)
parametersToString(parameters, i) ==
    IF i > Len(parameters) THEN << >>
    ELSE (IF i > 1 THEN <<",", " ">> ELSE << >>)
            \o irTypeToString(parameters[i].type) \o <<" ", "%">> \o parameters[i].name
            \o parametersToString(parameters, i + 1)

RECURSIVE blocksToString(_, _)
blocksToString(blocks, i) ==
    IF i > Len(blocks) THEN << >>
    ELSE IRBasicBlock_toString(blocks[i]) \o blocksToString(blocks, i + 1)

IRFunction_toString(fn) ==
    <<"d", "e", "f", "i", "n", "e", " ">> \o irTypeToString(fn.returnType) \o <<" ", "@">> \o fn.name
        \o <<"(">> \o parametersToString(fn.parameters, 1)
        \o <<")", " ", "{", "\n">>
        \o blocksToString(fn.blocks, 1)
        \o <<"}", "\n">>

\* the loop of IRModule::toString over the functions
RECURSIVE functionsToString(_, _)
functionsToString(functions, i) ==
    IF i > Len(functions) THEN << >>
    ELSE IRFunction_toString(functions[i]) \o <<"\n">>
            \o functionsToString(functions, i + 1)

IRModule_toString(name, functions) ==
    <<";", " ", "M", "o", "d", "u", "l", "e", "I", "D", " ", "=", " ", "'">> \o name \o <<"'", "\n", "\n">>
        \o functionsToString(functions, 1)

\* the module name the repository's builder test gives the builder
ModuleName == <<"t", "e", "s", "t">>

\* r is the builder after a visit: a null dereference ends the run, otherwise the
\* handler goes on with F
After(r, F(_)) ==
    CHOOSE y \in {IF x.fault THEN x ELSE F(x) : x \in {r}} : TRUE

typeFromString(cType) ==
    IF cType = Str_int THEN "INT32"
    ELSE IF cType = Str_float THEN "FLOAT32"
    ELSE IF cType = Str_void THEN "VOID"
    ELSE "INT32"

\* the block made is the last of b.blocks
createBlock(b, name) ==
    LET c == [b EXCEPT !.blocks = Append(@, IRBasicBlock(name))]
    IN  IF b.currentFunction # 0
        THEN [c EXCEPT !.functions[b.currentFunction].blocks = Append(@, Len(c.blocks))]
        ELSE c

setCurrentBlock(b, blk) == [b EXCEPT !.currentBlock = blk]

\* auto block = createBlock(name); setCurrentBlock(block);
enterBlock(b, name) ==
    Let(createBlock(b, name), LAMBDA c : setCurrentBlock(c, Len(c.blocks)))

addInstruction(b, instruction) ==
    IF b.currentBlock # 0
    THEN [b EXCEPT !.blocks[b.currentBlock].instructions = Append(@, instruction)]
    ELSE b

createTemp(b, type, prefix) ==
    [temp |-> IRIdentifier(prefix \o to_string(b.tempCounter), type),
     b |-> [b EXCEPT !.tempCounter = @ + 1]]

createLabel(b, prefix) ==
    [label |-> prefix \o <<".">> \o to_string(b.labelCounter),
     b |-> [b EXCEPT !.labelCounter = @ + 1]]

\* valueStack_.push(value)
push(b, value) == [b EXCEPT !.valueStack = Append(@, value)]

popValue(b) ==
    IF b.valueStack = << >>
    THEN [value |-> IRIntConstant(0),
          b |-> [b EXCEPT !.emptyPops = @ \cup {IRIntConstant(0)}]]
    ELSE [value |-> b.valueStack[Len(b.valueStack)],
          b |-> [b EXCEPT !.valueStack = SubSeq(@, 1, Len(@) - 1)]]

\* symbolTable_.find(name): the identifier, or nullptr for end()
symbolTable_find(b, name) ==
    LET found == {y \in b.symbolTable : y.name = name}
    IN  IF found # {} THEN CHOOSE y \in found : TRUE ELSE nullptr

\* symbolTable_[var.name] = var;
symbolTable_insert(b, var) ==
    [b EXCEPT !.symbolTable = {y \in @ : y.name # var.name} \cup {var}]

\* the switch of visit(BinaryExpression) for the operators other than ASSIGN
BinaryOpcode(op) ==
    CASE op = "PLUS"          -> "ADD"
      [] op = "MINUS"         -> "SUB"
      [] op = "MULTIPLY"      -> "MUL"
      [] op = "DIVIDE"        -> "DIV"
      [] op = "MODULO"        -> "MOD"
      [] op = "EQUAL"         -> "CMP_EQ"
      [] op = "NOT_EQUAL"     -> "CMP_NE"
      [] op = "LESS"          -> "CMP_LT"
      [] op = "LESS_EQUAL"    -> "CMP_LE"
      [] op = "GREATER"       -> "CMP_GT"
      [] op = "GREATER_EQUAL" -> "CMP_GE"
      [] op = "AND"           -> "AND"
      [] op = "OR"            -> "OR"
      [] OTHER                -> "default"

\* the switch of visit(UnaryExpression)
UnaryOpcode(op) ==
    CASE op = "MINUS" -> "NEG"
      [] op = "NOT"   -> "NOT"
      [] OTHER        -> "default"

\* createTemp(type); the instruction with the temporary as result; push(temp)
emitToTemp(b, opcode, type, operands) ==
    Let(createTemp(b, type, Str_t), LAMBDA t :
        push(addInstruction(t.b, IRInstruction(opcode, t.temp, operands)), t.temp))

\* visit(BinaryExpression) from its switch on, left and right popped
binarySwitch(b, node, left, right) ==
    IF node.op = "ASSIGN"
    THEN LET var == IF node.left.kind = "VariableExpression"
                    THEN symbolTable_find(b, node.left.name) ELSE nullptr
         IN  IF var # nullptr
             THEN push(addInstruction(b, IRInstruction("STORE", nullptr, <<right, var>>)),
                       right)
             ELSE push(b, right)
    ELSE IF BinaryOpcode(node.op) = "default" THEN push(b, left)
    ELSE emitToTemp(b, BinaryOpcode(node.op), left.type, <<left, right>>)

\* the expression statement that leaves the value of its expression on the stack
popIfNotEmpty_keep(b) == b

\* visit(ExpressionStatement) after the expression:
\* if (!valueStack_.empty()) valueStack_.pop();
popIfNotEmpty(b) ==
    IF b.valueStack # << >> THEN [b EXCEPT !.valueStack = SubSeq(@, 1, Len(@) - 1)] ELSE b

\* visit(FunctionDeclaration): the parameters converted for the IRFunction
functionParameters(node) ==
    [i \in 1..Len(node.parameters) |->
        IRFunctionParameter(node.parameters[i].name,
                            typeFromString(node.parameters[i].type))]

\* visit(FunctionDeclaration): the loop giving each parameter its slot, from i
RECURSIVE allocateParameters(_, _, _)
allocateParameters(b0, params, i) ==
    Let(b0, LAMBDA b :
        IF i > Len(params) THEN b
        ELSE LET var == IRIdentifier(params[i].name, params[i].type)
                 paramVar == IRIdentifier(Str_param \o params[i].name, params[i].type)
             IN  allocateParameters(
                    addInstruction(
                        addInstruction(symbolTable_insert(b, var),
                                       IRInstruction("ALLOCA", var, << >>)),
                        IRInstruction("STORE", nullptr, <<paramVar, var>>)),
                    params, i + 1))

\* an end of visit(FunctionDeclaration) that adds no return
finishFunction_noRet(b, returnType) ==
    IF b.currentBlock = 0 THEN [b EXCEPT !.fault = TRUE]
    ELSE [b EXCEPT !.currentFunction = 0, !.currentBlock = 0]

\* visit(FunctionDeclaration) after the body: currentBlock_ is dereferenced, and is
\* null when the body held a function declaration; then the default return,
\* and currentFunction_ and currentBlock_ are cleared
finishFunction(b, returnType) ==
    IF b.currentBlock = 0 THEN [b EXCEPT !.fault = TRUE]
    ELSE LET instructions == b.blocks[b.currentBlock].instructions
             retInst == IRInstruction("RET", nullptr,
                            IF returnType = "VOID" THEN << >> ELSE <<IRIntConstant(0)>>)
         IN  [(IF instructions = << >> \/ instructions[Len(instructions)].opcode # "RET"
               THEN addInstruction(b, retInst) ELSE b)
                EXCEPT !.currentFunction = 0, !.currentBlock = 0]

\* what is observed when visit(FunctionDeclaration) returns: the instructions of
\* the block current after the body, and of the last block of the function
\* before and after the default return
FunctionObservation(v, r, returnType, fn) ==
    LET blocks == v.functions[fn].blocks
        last == blocks[Len(blocks)]
    IN  [name |-> v.functions[fn].name, returnType |-> returnType,
         visited |-> v.blocks[v.currentBlock].instructions,
         before |-> v.blocks[last].instructions,
         after |-> r.blocks[last].instructions,
         blocks |-> Len(r.functions[fn].blocks) - Len(blocks)]

\* the end of visit(FunctionDeclaration) for the function at position fn of the
\* module, observed when it returns
endFunction(v, returnType, fn) ==
    Let(finishFunction(v, returnType), LAMBDA r :
        IF r.fault THEN r
        ELSE [r EXCEPT !.finished = @ \cup {FunctionObservation(v, r, returnType, fn)}])

\* the members of the IRBuilder object b, without what is observed of its past
Members(b) ==
    [b EXCEPT !.obs = {}, !.finished = {}, !.lowered = {}, !.emptyPops = {},
              !.results = << >>, !.dumps = << >>]

LoweringsObserved ==
    {"IfStatement", "WhileStatement", "BinaryExpression", "VariableExpression"}

ExpressionKinds ==
    {"IntegerLiteral", "FloatLiteral", "StringLiteral", "VariableExpression",
     "BinaryExpression", "UnaryExpression", "CallExpression"}

RECURSIVE IRBuilder_visit(_, _), IRBuilder_handler(_, _),
          IRBuilder_visitStatements(_, _, _), IRBuilder_visitArguments(_, _, _, _)

\* node->accept(*this): a null node is a null pointer dereference; otherwise the
\* handler of the node's class runs, and its return is observed
IRBuilder_visit(b0, node) ==
    Let(b0, LAMBDA b :
        IF b.fault THEN b
        ELSE IF node.kind = "null" THEN [b EXCEPT !.fault = TRUE]
        ELSE After(IRBuilder_handler(b, node), LAMBDA r :
                [r EXCEPT !.obs = @ \cup {[kind |-> node.kind, entry |-> b.valueStack,
                                           exit |-> r.valueStack]},
                          !.lowered = IF node.kind \in LoweringsObserved
                                      THEN @ \cup {[node |-> node, entry |-> Members(b),
                                                    exit |-> Members(r)]}
                                      ELSE @]))

\* the visit functions, by the class of the node
IRBuilder_handler(b, node) ==
    CASE node.kind = "IntegerLiteral" -> push(b, IRIntConstant(node.value))
      [] node.kind = "FloatLiteral" -> push(b, IRFloatConstant(node.value))
      [] node.kind = "StringLiteral" -> push(b, IRIntConstant(0))
      [] node.kind = "VariableExpression" ->
            LET var == symbolTable_find(b, node.name)
            IN  IF var = nullptr THEN push(b, IRIntConstant(0))
                ELSE emitToTemp(b, "LOAD", var.type, <<var>>)
      [] node.kind = "BinaryExpression" ->
            \* only the left operand is visited
            After(IRBuilder_visit(b, node.left), LAMBDA v :
                Let(popValue(v), LAMBDA right :
                    Let(popValue(right.b), LAMBDA left :
                        binarySwitch(left.b, node, left.value, right.value))))
      [] node.kind = "UnaryExpression" ->
            After(IRBuilder_visit(b, node.operand), LAMBDA v :
                Let(popValue(v), LAMBDA operand :
                    IF UnaryOpcode(node.op) = "default"
                    THEN push(operand.b, operand.value)
                    ELSE emitToTemp(operand.b, UnaryOpcode(node.op), operand.value.type,
                                    <<operand.value>>)))
      [] node.kind = "CallExpression" ->
            Let(IRBuilder_visitArguments(b, node.arguments, 1, << >>), LAMBDA a :
                IF a.b.fault THEN a.b ELSE emitToTemp(a.b, "CALL", "INT32", a.args))
      [] node.kind = "ExpressionStatement" ->
            After(IRBuilder_visit(b, node.expression), LAMBDA v : popIfNotEmpty(v))
      [] node.kind = "VarDeclaration" ->
            LET var == IRIdentifier(node.name, typeFromString(node.type))
                a == addInstruction(symbolTable_insert(b, var),
                                    IRInstruction("ALLOCA", var, << >>))
            IN  IF node.initializer = Null THEN a
                ELSE After(IRBuilder_visit(a, node.initializer), LAMBDA v :
                        Let(popValue(v), LAMBDA initValue :
                            addInstruction(initValue.b,
                                IRInstruction("STORE", nullptr, <<initValue.value, var>>))))
      [] node.kind = "BlockStatement" -> IRBuilder_visitStatements(b, node.statements, 1)
      [] node.kind = "IfStatement" ->
            Let(createLabel(b, Str_then), LAMBDA then :
            Let(createLabel(then.b, Str_else), LAMBDA else :
            Let(createLabel(else.b, Str_endif), LAMBDA end :
            After(IRBuilder_visit(end.b, node.condition), LAMBDA c :
            Let(popValue(c), LAMBDA condition :
            Let(addInstruction(
                    addInstruction(condition.b,
                        IRInstruction("JMP_IF", nullptr,
                                      <<condition.value, IRLabel(then.label)>>)),
                    IRInstruction("JMP", nullptr, <<IRLabel(else.label)>>)), LAMBDA j :
            After(IRBuilder_visit(enterBlock(j, then.label), node.thenBranch), LAMBDA t :
            After(LET e == enterBlock(
                              addInstruction(t, IRInstruction("JMP", nullptr,
                                                              <<IRLabel(end.label)>>)),
                              else.label)
                  IN  IF node.elseBranch # Null THEN IRBuilder_visit(e, node.elseBranch)
                      ELSE e, LAMBDA f :
                enterBlock(addInstruction(f, IRInstruction("JMP", nullptr,
                                                           <<IRLabel(end.label)>>)),
                           end.label)))))))))
      [] node.kind = "WhileStatement" ->
            Let(createLabel(b, Str_while_cond), LAMBDA cond :
            Let(createLabel(cond.b, Str_while_body), LAMBDA body :
            Let(createLabel(body.b, Str_while_end), LAMBDA end :
            After(IRBuilder_visit(
                    enterBlock(addInstruction(end.b,
                                   IRInstruction("JMP", nullptr, <<IRLabel(cond.label)>>)),
                               cond.label),
                    node.condition), LAMBDA c :
            Let(popValue(c), LAMBDA condition :
            Let(addInstruction(
                    addInstruction(condition.b,
                        IRInstruction("JMP_IF", nullptr,
                                      <<condition.value, IRLabel(body.label)>>)),
                    IRInstruction("JMP", nullptr, <<IRLabel(end.label)>>)), LAMBDA j :
            After(IRBuilder_visit(enterBlock(j, body.label), node.body), LAMBDA w :
                enterBlock(addInstruction(w, IRInstruction("JMP", nullptr,
                                                           <<IRLabel(cond.label)>>)),
                           end.label))))))))
      [] node.kind = "ReturnStatement" ->
            IF node.value # Null
            THEN After(IRBuilder_visit(b, node.value), LAMBDA v :
                    Let(popValue(v), LAMBDA value :
                        addInstruction(value.b,
                            IRInstruction("RET", nullptr, <<value.value>>))))
            ELSE addInstruction(b, IRInstruction("RET", nullptr, << >>))
      [] node.kind = "FunctionDeclaration" ->
            LET returnType == typeFromString(node.returnType)
                params == functionParameters(node)
            IN  Let([b EXCEPT !.functions = Append(@, IRFunction(node.name, returnType,
                                                                 params)),
                              !.currentFunction = Len(b.functions) + 1], LAMBDA f :
                Let([enterBlock(f, Str_entry) EXCEPT !.symbolTable = {}], LAMBDA e :
                After(IRBuilder_visit(allocateParameters(e, params, 1), node.body),
                      LAMBDA v : endFunction(v, returnType, Len(b.functions) + 1))))

\* the loop `for (const auto& stmt : statements) stmt->accept(*this);` from position i
IRBuilder_visitStatements(b0, statements, i) ==
    Let(b0, LAMBDA b :
        IF i > Len(statements) \/ b.fault THEN b
        ELSE IRBuilder_visitStatements(IRBuilder_visit(b, statements[i]), statements,
                                       i + 1))

\* the loop of visit(CallExpression) over the arguments, from position i; the
\* result is the builder with the local vector args beside it
IRBuilder_visitArguments(b0, arguments, i, args) ==
    Let(b0, LAMBDA b :
        IF i > Len(arguments) \/ b.fault
        THEN [b |-> b, args |-> args]
        ELSE Let(popValue(IRBuilder_visit(b, arguments[i])), LAMBDA arg :
                IRBuilder_visitArguments(arg.b, arguments, i + 1,
                                         Append(args, arg.value))))

\* build up to program->accept(*this): what build clears, then the loop of
\* visit(Program) at its first statement
buildBegin(b) ==
    [b EXCEPT !.symbolTable = {}, !.valueStack = << >>, !.labelCounter = 0,
              !.tempCounter = 0, !.next = 1]

\* build on the builder b: the builder when build returns, or at the fault
IRBuilder_build(b, prog) == IRBuilder_visitStatements(buildBegin(b), prog.statements, 1)

----------------------------------------------------------------------------
(* Idle values of the components a specification does not exercise *)

ParserIdle == ParserInit

NoProgram == [kind |-> "none"]

SemIdle == SemanticAnalyzerInit

IrbIdle == IRBuilderInit

----------------------------------------------------------------------------
(* The lexer as a state machine: one action per iteration of the loop of   *)
(* scanTokens, one for the code after the loop.                            *)

LexChars == {"a", "1", " ", "\n", "/", "*", "=", "\""}

LexSources == UNION {[1..n -> LexChars] : n \in 0..MaxSrcLen}

\* the operator lexemes, and sources of operators: one or two lexemes, the second after
\* a space, a newline or nothing, the lone halves of && and ||, and the line of the
\* repository's operator test
OperatorLexemes ==
    {<<"+">>, <<"-">>, <<"*">>, <<"/">>, <<"%">>,
     <<"=">>, <<"=", "=">>, <<"!", "=">>, <<"<">>, <<"<", "=">>,
     <<">">>, <<">", "=">>, <<"&", "&">>, <<"|", "|">>}

OperatorTestLine ==
    <<"+", " ", "-", " ", "*", " ", "/", " ", "%", " ", "=", " ", "=", "=", " ", "!", "=", " ", "<", " ", "<", "=", " ", ">", " ", ">", "=", " ", "&", "&", " ", "|", "|">>

OperatorSources ==
    {a \o sep \o b : a \in OperatorLexemes \cup {<<"&">>, <<"|">>},
                      sep \in {<<" ">>, <<"\n">>, << >>},
                      b \in OperatorLexemes \cup {<<"&">>, <<"|">>, << >>}}
        \cup {OperatorTestLine, <<"=", "=", "=">>, <<"=", "=", " ">>}

\* sources with a comment put into the whitespace between two tokens: the token
\* before, the whitespace, the token after, the comment, and whether the comment
\* comes before or after the whitespace
GapLexemes ==
    {<<"a">>, <<"1">>, <<"/">>, <<"*">>, <<"=">>, <<";">>, <<"\"", "s", "\"">>}

Comments ==
    {<<"/", "/", "\n">>,
     <<"/", "/", "a", " ", "/", "\n">>,
     <<"/", "*", "*", "/">>,
     <<"/", "*", "a", "*", "/">>,
     <<"/", "*", "\n", "a", "\n", "*", "/">>,
     <<"/", "*", "/", "/", "*", "/">>}

CommentInsertions ==
    [left : GapLexemes, ws : {<<" ">>, <<"\n">>}, right : GapLexemes,
     comment : Comments, at : {"before", "after"}]

Commented(r) ==
    r.left \o (IF r.at = "before" THEN r.comment \o r.ws ELSE r.ws \o r.comment)
        \o r.right

Uncommented(r) == r.left \o r.ws \o r.right

\* the shape of the source of the repository's comment test
CommentTestSource ==
    <<"1", ";", " ", "/", "/", " ", "a", "\n", "1", ";", " ", "/", "*", " ", "a", "\n", "a", " ", "*", "/", " ", "1", ";">>

CommentSources == {Commented(r) : r \in CommentInsertions} \cup {CommentTestSource}

InitLex ==
    /\ source \in LexSources \cup OperatorSources \cup CommentSources
    /\ lex = LexerInit
    /\ tokens = << >>
    /\ pc = "scanning"
    /\ par = ParserIdle
    /\ program = NoProgram
    /\ sem = SemIdle
    /\ irb = IrbIdle
    /\ calls = 0

\* scanTokens, loop body: start_ = current_; tokens_.push_back(scanToken());
LexScanToken ==
    /\ pc = "scanning"
    /\ ~Lexer_isAtEnd(source, lex)
    /\ LET r == scanToken(source, [lex EXCEPT !.start = lex.current])
       IN  /\ lex' = r.l
           /\ tokens' = Append(tokens, r.tok)
    /\ UNCHANGED <<pc, source, par, program, sem, irb, calls>>

\* scanTokens, after the loop: tokens_.emplace_back(END_OF_FILE, ...); return tokens_;
LexFinish ==
    /\ pc = "scanning"
    /\ Lexer_isAtEnd(source, lex)
    /\ tokens' = Append(tokens, eofToken(lex))
    /\ pc' = "scanned"
    /\ UNCHANGED <<source, lex, par, program, sem, irb, calls>>

NextLex == LexScanToken \/ LexFinish

SpecLex == InitLex /\ [][NextLex]_vars

EofCount(toks) == Cardinality({i \in 1..Len(toks) : toks[i].type = "END_OF_FILE"})

\* C1: scanTokens returns a non-empty sequence whose last token is END_OF_FILE and
\* which holds no other END_OF_FILE token, whatever the source ends with.
C1_ExactlyOneEof ==
    pc = "scanned" =>
        /\ Len(tokens) >= 1
        /\ tokens[Len(tokens)].type = "END_OF_FILE"
        /\ EofCount(tokens) = 1

\* the 1-based line and column of the character at 0-based offset of src
LineOf(src, offset) == 1 + Cardinality({i \in 1..offset : src[i] = "\n"})

ColumnOf(src, offset) ==
    LET newlines == {i \in 1..offset : src[i] = "\n"}
    IN  IF newlines = {} THEN offset + 1
        ELSE offset + 1 - (CHOOSE i \in newlines : \A j \in newlines : j <= i)

\* C11: every token scanTokens appends carries the 1-based line and column of its
\* first character: the token just scanned, which starts at start_, has them.
C11_TokenPositionIsFirstCharacter ==
    (tokens # << >> /\ tokens[Len(tokens)].type # "END_OF_FILE") =>
        /\ tokens[Len(tokens)].line = LineOf(source, lex.start)
        /\ tokens[Len(tokens)].column = ColumnOf(source, lex.start)

----------------------------------------------------------------------------
(* Programs.  A program is written as a sequence of words; its source text  *)
(* is the words' characters joined by single spaces, and is lexed by        *)
(* scanTokens like any other source.                                        *)

Nines(n) == [i \in 1..n |-> "9"]

\* the characters of a word
Spell(w) ==
    CASE w = "int"    -> Str_int
      [] w = "float"  -> Str_float
      [] w = "void"   -> Str_void
      [] w = "if"     -> <<"i", "f">>
      [] w = "else"   -> <<"e", "l", "s", "e">>
      [] w = "while"  -> <<"w", "h", "i", "l", "e">>
      [] w = "return" -> <<"r", "e", "t", "u", "r", "n">>
      [] w = "=="     -> <<"=", "=">>
      [] w = "!="     -> <<"!", "=">>
      [] w = "<="     -> <<"<", "=">>
      [] w = ">="     -> <<">", "=">>
      [] w = "&&"     -> <<"&", "&">>
      [] w = "||"     -> <<"|", "|">>
      [] w = "print"  -> <<"p", "r", "i", "n", "t">>
      [] w = "t0"     -> <<"t", "0">>
      [] w = "1.5"    -> <<"1", ".", "5">>
      [] w = "str"    -> <<"\"", "s", "\"">>
      [] w = "maxint" -> <<"2", "1", "4", "7", "4", "8", "3", "6", "4", "7">>
      [] w = "bigint" -> <<"2", "1", "4", "7", "4", "8", "3", "6", "4", "8">>
      [] w = "bigfloat" -> Nines(40) \o <<".", "0">>
      [] OTHER        -> <<w>>

RECURSIVE Join(_)
Join(ws) ==
    IF ws = << >> THEN << >>
    ELSE IF Len(ws) = 1 THEN Spell(ws[1])
    ELSE Spell(ws[1]) \o <<" ">> \o Join(Tail(ws))

\* the words of the programs enumerated exhaustively
ParseWords == {"int", "x", "(", ")", "{", "}", ";", "=", "1", "return"}

WordPrograms == UNION {[1..n -> ParseWords] : n \in 0..MaxWords}

\* longer programs, one per construct the parser, analyzer and builder handle
SamplePrograms ==
    { <<"int", "x", "=", "1", ";">>,
      <<"float", "y", "=", "1.5", ";">>,
      <<"int", "x", "=", "maxint", ";">>,
      <<"int", "x", "=", "bigint", ";">>,
      <<"float", "y", "=", "bigfloat", ";">>,
      <<"bigint", ";", "int", "x", ";">>,
      <<"1", "=", "2", ";">>,
      <<"a", "+", "b", "=", "c", ";">>,
      <<"x", "=", "y", "=", "1", ";">>,
      <<"f", "(", "1", ")", "(", "2", ")", ";">>,
      <<")", ";", ")", ";">>,
      <<"int", ";", "int", "x", ";", "float", ";">>,
      <<"int", "x", ";", "{", "int", "x", ";", "}">>,
      <<"int", "x", "=", "1", ";", "int", "x", "=", "y", ";">>,
      <<"g", "(", "y", ")", ";">>,
      <<"x", "(", "y", ")", ";">>,
      <<"int", "x", ";", "x", "(", "y", ")", ";">>,
      <<"print", "(", "y", ",", "z", ")", ";">>,
      <<"print", "(", "1", ")", ";">>,
      <<"print", "(", "str", ")", ";">>,
      <<"int", "f", "(", ")", "{", "}">>,
      <<"void", "f", "(", ")", "{", "}">>,
      <<"void", "f", "(", ")", "{", "return", ";", "}">>,
      <<"int", "f", "(", ")", "{", "return", "1", "+", "2", ";", "}">>,
      <<"int", "f", "(", "int", "a", ")", "{", "return", "a", ";", "}">>,
      <<"int", "f", "(", "int", "a", ",", "float", "b", ")", "{", "a", "=", "1", ";", "}">>,
      <<"int", "f", "(", "int", "a", ")", "{", "}",
        "int", "g", "(", "int", "a", ")", "{", "}">>,
      <<"int", "f", "(", ")", "{", "int", "x", ";", "}",
        "int", "g", "(", ")", "{", "int", "x", ";", "}">>,
      <<"int", "f", "(", ")", "{", "int", "x", ";", "{", "int", "x", ";", "}", "}">>,
      <<"int", "f", "(", ")", "{", "}", "int", "f", "(", ")", "{", "y", ";", "}">>,
      <<"int", "f", "(", ")", "{", "int", "g", "(", ")", "{", "}", "}">>,
      <<"int", "f", "(", ")", "{", "int", "g", "(", ")", "{", "}", "return", "1", ";", "}">>,
      <<"int", "f", "(", ")", "{", ")", ";", "}">>,
      <<"int", "f", "(", ")", "{", "1", "=", "x", ";", "}">>,
      <<"int", "f", "(", ")", "{", "int", "x", "=", "1", ";",
        "if", "(", "x", ")", "x", "=", "2", ";", "else", "x", "=", "3", ";", "}">>,
      <<"int", "f", "(", ")", "{", "int", "x", ";", "while", "(", "x", ")", "x", "=", "1", ";", "}">>,
      <<"while", "(", "x", ")", "{", "x", "=", "x", "-", "1", ";", "}">>,
      <<"int", "f", "(", ")", "{", "int", "x", ";", "return", "-", "x", "*", "2", ";", "}">>,
      <<"int", "f", "(", "int", "a", ")", "{", "return", "f", "(", "a", ")", ";", "}">>,
      <<"int", "f", "(", "int", "a", ")", "{", "return", "a", ";", "}",
        "f", "(", "1", ",", "2", ")", ";">>,
      <<"int", "x", ";", "int", "f", "(", ")", "{", "return", "x", ";", "}">>,
      <<"if", "(", "x", ")", "x", ";">>,
      <<"while", "(", "1", ")", "return", ";">>,
      <<"return", "1", ";">>,
      <<"int", "f", "(", "x", ")", "{", "}">>,
      <<"{", "x", "x", "}">>,
      <<"int", "t0", ";">>,
      <<"int", "f", "(", "int", "a", ")", "{", "return", "a", ";", "}",
        "int", "g", "(", ")", "{", "return", "f", "(", "1", ",", "2", ")", ";", "}">>,
      <<"f", "(", "(", "1", "+", "2", ")", "*", "3", ",", "4", "-", "x", ")", ";">>,
      <<"int", "t0", ";", "-", "(", "t0", "+", "1", ")", ";">>,
      <<"float", "y", "=", "1", ";", "int", "x", "=", "1.5", ";",
        "y", "=", "x", ";", "x", "=", "y", ";">>,
      <<"int", "f", "(", "int", "a", ",", "float", "b", ")", "{", "return", "1.5", ";", "}",
        "float", "g", "(", ")", "{", "return", "f", "(", "1.5", ",", "1", ")", ";", "}">>,
      <<"int", "f", "(", "int", "a", ")", "{", "if", "(", "a", ")", "return", "1", ";", "}",
        "void", "g", "(", ")", "{", "return", ";", "}">>,
      <<"float", "f", "(", ")", "{", "}", "void", "g", "(", ")", "{", "1", ";", "}">>,
      <<"a", "-", "b", "-", "c", ";", "a", "+", "b", "*", "c", ";",
        "a", "=", "b", "=", "c", ";">>,
      <<"a", "=", "b", "||", "c", "&&", "d", "==", "e", "<", "f", "+", "g", "*",
        "-", "h", "(", ")", ";">>,
      <<"!", "a", "(", "b", ",", "c", ")", "%", "b", "-", "c", ">=", "d", "!=", "e",
        "&&", "f", "||", "g", ";">>,
      <<"a", "/", "b", "%", "c", ";", "a", "<=", "b", ">", "c", ";",
        "a", "||", "b", "||", "c", ";", "a", "&&", "b", "&&", "c", ";",
        "a", "!=", "b", "==", "c", ";">>,
      <<"float", "y", ";", "int", "f", "(", "int", "a", ",", "float", "b", ")", "{",
        "return", "a", "+", "b", ";", "}", "void", "g", "(", ")", "{", "}">>,
      <<"1", ";", "=", ";", "{", "1", ";", "=", ";", "}">>,
      <<"int", "f", "(", "int", "a", ")", "{", "if", "(", "a", "<", "1", ")", "{",
        "while", "(", "a", ")", "if", "(", "1", ")", "a", ";", "}",
        "else", "return", "a", ";", "a", ";", "}">>,
      <<"int", "f", "(", ")", "{", "if", "(", "1", ")", "{", "int", "g", "(", ")", "{", "}",
        "}", "}">>,
      <<"int", "f", "(", ")", "{", "while", "(", "1", ")", "{", "int", "g", "(", ")", "{",
        "}", "}", "}">> }

ParseSources == {Join(ws) : ws \in WordPrograms} \cup {Join(ws) : ws \in SamplePrograms}

----------------------------------------------------------------------------
(* The parser as a state machine: one action per iteration of the loop of   *)
(* parse, one for the return after it.                                      *)

InitParse ==
    /\ source \in ParseSources
    /\ lex = LexerInit
    /\ tokens = scanTokens(source)
    /\ pc = "parsing"
    /\ par = ParserInit
    /\ program = NoProgram
    /\ sem = SemIdle
    /\ irb = IrbIdle
    /\ calls = 0

\* parse, loop body: statements.push_back(declaration()); with the catch clause
\* around the loop, and an exception that is no ParseError leaving parse
ParseDeclaration ==
    /\ pc = "parsing"
    /\ ~Parser_isAtEnd(tokens, par)
    /\ LET s == parseStep(tokens, par)
       IN  /\ par' = s.p
           /\ pc' = s.pc
           /\ program' = IF s.pc = "parsed" THEN Program(s.p.statements) ELSE program
    /\ UNCHANGED <<source, lex, tokens, sem, irb, calls>>

\* parse, after the loop: return make_unique<Program>(statements);
ParseReturn ==
    /\ pc = "parsing"
    /\ Parser_isAtEnd(tokens, par)
    /\ pc' = "parsed"
    /\ program' = Program(par.statements)
    /\ UNCHANGED <<source, lex, tokens, par, sem, irb, calls>>

NextParse == ParseDeclaration \/ ParseReturn

SpecParse == InitParse /\ [][NextParse]_vars

\* parse() runs on: the loop is a sequential program that is never suspended
SpecParseLive == InitParse /\ [][NextParse]_vars /\ WF_vars(NextParse)

\* C2: no exception of any kind leaves parse(): from every token sequence the lexer
\* produces, parse() either is still running or has returned a Program.
C2_ParseNeverThrows == pc \in {"parsing", "parsed"}

\* C4: each ParseError caught by the guard of declaration() is logged there, so the
\* parser has written one diagnostic per caught error.
C4_EveryCaughtErrorLogged == Len(par.log) = par.caught

\* C5: an assignment whose left operand is no variable reference raises a ParseError:
\* ParseErrors thrown are at least as many as the invalid assignment targets met.
C5_InvalidTargetRaises == par.raised >= par.invalid

----------------------------------------------------------------------------
(* The semantic analyzer as a state machine: analyze() is called up to      *)
(* MaxCalls times on one SemanticAnalyzer with the Program parse returned;  *)
(* one action per iteration of the loop of visit(Program).                  *)

InitSem ==
    /\ source \in ParseSources
    /\ lex = LexerInit
    /\ tokens = scanTokens(source)
    /\ parse(tokens).pc = "parsed"
    /\ par = parse(tokens).p
    /\ program = Program(par.statements)
    /\ pc = "idle"
    /\ sem = SemanticAnalyzerInit
    /\ irb = IrbIdle
    /\ calls = 0

\* analyze: the reset, and visit(Program) up to its loop
SemAnalyze ==
    /\ pc = "idle"
    /\ calls < MaxCalls
    /\ sem' = analyzeBegin(sem)
    /\ pc' = "analyzing"
    /\ UNCHANGED <<source, lex, tokens, par, program, irb, calls>>

\* visit(Program), loop body: stmt->accept(*this);
SemVisitStatement ==
    /\ pc = "analyzing"
    /\ sem.next <= Len(program.statements)
    /\ LET v == SemanticAnalyzer_visit(sem, program.statements[sem.next])
       IN  /\ sem' = [v EXCEPT !.next = @ + 1]
           /\ pc' = IF v.fault THEN "fault" ELSE "analyzing"
    /\ UNCHANGED <<source, lex, tokens, par, program, irb, calls>>

\* visit(Program) and analyze return
SemReturn ==
    /\ pc = "analyzing"
    /\ sem.next > Len(program.statements)
    /\ sem' = [sem EXCEPT !.results = Append(@, sem.errors), !.next = 0]
    /\ pc' = "idle"
    /\ calls' = calls + 1
    /\ UNCHANGED <<source, lex, tokens, par, program, irb>>

NextSem == SemAnalyze \/ SemVisitStatement \/ SemReturn

SpecSem == InitSem /\ [][NextSem]_vars

\* the VariableExpression nodes below a node, as [name, loc]
RECURSIVE VariableRefs(_)
VariableRefs(node) ==
    CASE node.kind = "VariableExpression" -> {[name |-> node.name, loc |-> node.loc]}
      [] node.kind = "BinaryExpression" ->
            VariableRefs(node.left) \cup VariableRefs(node.right)
      [] node.kind = "UnaryExpression" -> VariableRefs(node.operand)
      [] node.kind = "CallExpression" ->
            UNION {VariableRefs(node.arguments[i]) : i \in 1..Len(node.arguments)}
      [] node.kind = "ExpressionStatement" -> VariableRefs(node.expression)
      [] node.kind = "VarDeclaration" -> VariableRefs(node.initializer)
      [] node.kind \in {"BlockStatement", "Program"} ->
            UNION {VariableRefs(node.statements[i]) : i \in 1..Len(node.statements)}
      [] node.kind = "IfStatement" ->
            VariableRefs(node.condition) \cup VariableRefs(node.thenBranch)
                \cup VariableRefs(node.elseBranch)
      [] node.kind = "WhileStatement" ->
            VariableRefs(node.condition) \cup VariableRefs(node.body)
      [] node.kind = "ReturnStatement" -> VariableRefs(node.value)
      [] node.kind = "FunctionDeclaration" -> VariableRefs(node.body)
      [] OTHER -> {}

\* the names a node declares anywhere below it: variables, parameters, functions
RECURSIVE DeclaredNames(_)
DeclaredNames(node) ==
    CASE node.kind = "VarDeclaration" -> {node.name}
      [] node.kind \in {"BlockStatement", "Program"} ->
            UNION {DeclaredNames(node.statements[i]) : i \in 1..Len(node.statements)}
      [] node.kind = "IfStatement" ->
            DeclaredNames(node.thenBranch) \cup DeclaredNames(node.elseBranch)
      [] node.kind = "WhileStatement" -> DeclaredNames(node.body)
      [] node.kind = "FunctionDeclaration" ->
            {node.name} \cup {node.parameters[i].name : i \in 1..Len(node.parameters)}
                \cup DeclaredNames(node.body)
      [] OTHER -> {}

\* the references to names the program declares nowhere
UndeclaredRefs(prog) ==
    {r \in VariableRefs(prog) : r.name \notin DeclaredNames(prog) \cup {Str_print}}

Reported(errors, text, name, loc) ==
    \E i \in 1..Len(errors) :
        errors[i] = [message |-> Message(text, <<name>>), loc |-> loc]

\* C8: one analyze() pass reports every reference to an undeclared variable: when the
\* first analyze() has returned, each reference to a name declared nowhere in the
\* program has its 'Undefined variable' diagnostic at its location.
C8_EveryUndeclaredReferenceReported ==
    (pc = "idle" /\ calls = 1) =>
        \A r \in UndeclaredRefs(program) :
            Reported(sem.errors, "Undefined variable", r.name, r.loc)

\* C9: analyze() called a second time on the same analyzer with the same Program
\* leaves the same diagnostics list as the first call.
C9_SecondAnalyzeSameDiagnostics ==
    Len(sem.results) >= 2 => sem.results[2] = sem.results[1]

----------------------------------------------------------------------------
(* The IR builder as a state machine: build() is called up to MaxCalls      *)
(* times on one IRBuilder with the Program parse returned; one action per   *)
(* iteration of the loop of visit(Program).                                 *)

InitIR ==
    /\ source \in ParseSources
    /\ lex = LexerInit
    /\ tokens = scanTokens(source)
    /\ parse(tokens).pc = "parsed"
    /\ par = parse(tokens).p
    /\ program = Program(par.statements)
    /\ pc = "idle"
    /\ sem = SemIdle
    /\ irb = IRBuilderInit
    /\ calls = 0

\* build: the reset, and visit(Program) up to its loop
IrBuild ==
    /\ pc = "idle"
    /\ calls < MaxCalls
    /\ irb' = buildBegin(irb)
    /\ pc' = "building"
    /\ UNCHANGED <<source, lex, tokens, par, program, sem, calls>>

\* visit(Program), loop body: stmt->accept(*this);
IrVisitStatement ==
    /\ pc = "building"
    /\ irb.next <= Len(program.statements)
    /\ LET v == IRBuilder_visit(irb, program.statements[irb.next])
       IN  /\ irb' = [v EXCEPT !.next = @ + 1]
           /\ pc' = IF v.fault THEN "fault" ELSE "building"
    /\ UNCHANGED <<source, lex, tokens, par, program, sem, calls>>

\* visit(Program) returns, and build returns module_, of which the driver takes
\* the text
IrReturn ==
    /\ pc = "building"
    /\ irb.next > Len(program.statements)
    /\ irb' = [irb EXCEPT !.results = Append(@, IRModule(irb)), !.next = 0,
                          !.dumps = Append(@, IRModule_toString(ModuleName,
                                                                IRModule(irb)))]
    /\ pc' = "idle"
    /\ calls' = calls + 1
    /\ UNCHANGED <<source, lex, tokens, par, program, sem>>

NextIR == IrBuild \/ IrVisitStatement \/ IrReturn

SpecIR == InitIR /\ [][NextIR]_vars

\* C3: build() returns a module without faulting for every Program parse() can
\* return: no build ever dereferences a null pointer.
C3_BuildNeverFaults == pc # "fault"

\* the places of a module's instructions that have a result identifier
ResultPlaces(module) ==
    {<<f, k, i>> \in UNION {UNION {{<<f, k, i>> :
                                i \in 1..Len(module[f].blocks[k].instructions)} :
                            k \in 1..Len(module[f].blocks)} :
                     f \in 1..Len(module)} :
        module[f].blocks[k].instructions[i].result # nullptr}

ResultName(module, place) ==
    module[place[1]].blocks[place[2]].instructions[place[3]].result.name

\* C6: within a module build() has returned, no two instructions, of the same or of
\* different functions, have result identifiers of the same name.
C6_ResultNamesUnique ==
    \A n \in 1..Len(irb.results) :
        \A p1, p2 \in ResultPlaces(irb.results[n]) :
            p1 # p2 => ResultName(irb.results[n], p1) # ResultName(irb.results[n], p2)

\* C7: every expression handler that returns leaves the operand stack one element
\* deeper than at its entry, every statement handler that returns leaves it as it
\* was at its entry, and a pop on an empty stack yields the integer constant zero.
C7_StackDiscipline ==
    /\ \A o \in irb.obs :
            IF o.kind \in ExpressionKinds
            THEN Len(o.exit) = Len(o.entry) + 1
            ELSE o.exit = o.entry
    /\ irb.emptyPops \subseteq {IRIntConstant(0)}

\* a binary expression, whose handler pops twice after one visit, has returned, a pop
\* has met the empty stack, and the expression statement around it has returned
C7_BinaryHandlerReturned ==
    /\ \E o \in irb.obs : o.kind = "BinaryExpression" /\ Len(o.exit) = 1
    /\ \E o \in irb.obs : o.kind = "ExpressionStatement"
    /\ \E o \in irb.obs : o.kind = "FunctionDeclaration"
    /\ irb.emptyPops # {}

\* C10: build() called a second time on the same builder with the same Program
\* returns a module with the same functions, blocks and instructions as the first
\* call, which ran on a fresh builder.
C10_SecondBuildSameModule ==
    Len(irb.results) >= 2 => irb.results[2] = irb.results[1]

\* name is bound as a variable in some scope of the chain
BoundAsVariable(scopes, name) ==
    \E i \in 1..Len(scopes) :
        \E y \in scopes[i] : y.name = name /\ y.symbolType = "VARIABLE"

\* C12: the visit of a variable declaration whose name is bound as a variable in the
\* current scope or in an enclosing one adds exactly the one diagnostic 'Redefinition
\* of variable' at the declaration, and leaves every scope of the chain as it was.
C12_RedeclarationThroughChain ==
    \A o \in sem.obs :
        (o.kind = "VarDeclaration" /\ BoundAsVariable(o.scopesIn, o.name)) =>
            /\ o.added = <<[message |-> Message("Redefinition of variable", <<o.name>>),
                            loc |-> o.loc]>>
            /\ o.scopesOut = o.scopesIn

\* a variable declared in an inner scope under the name of a variable of an
\* enclosing scope, not of the current one, has been visited
C12_InnerRedeclarationVisited ==
    \E o \in sem.obs :
        /\ o.kind = "VarDeclaration"
        /\ Len(o.scopesIn) >= 2
        /\ BoundAsVariable(SubSeq(o.scopesIn, 1, Len(o.scopesIn) - 1), o.name)
        /\ \A y \in o.scopesIn[Len(o.scopesIn)] : y.name # o.name
        /\ Len(o.added) = 1

\* the program of the arity example: f has one parameter, g calls f(1, 2)
ArityExample ==
    Join(<<"int", "f", "(", "int", "a", ")", "{", "return", "a", ";", "}",
           "int", "g", "(", ")", "{", "return", "f", "(", "1", ",", "2", ")", ";", "}">>)

\* the observed call is of a name bound to a function with another number of parameters
ArityMismatch(o) ==
    /\ o.kind = "CallExpression"
    /\ LET symbol == Scope_findSymbol(o.scopesIn, Len(o.scopesIn), o.name)
       IN  /\ symbol.symbolType = "FUNCTION"
           /\ Len(symbol.paramTypes) # Len(o.node.arguments)

TypeNames == {Str_int, Str_float, Str_string, Str_void, Str_unknown}

\* a value of type src is accepted where type tgt is expected
Accepted(src, tgt) == src = tgt \/ (src = Str_int /\ tgt = Str_float)

\* the visit observed added the diagnostic with this text at this location
Added(o, text, loc) ==
    \E i \in 1..Len(o.added) : o.added[i].message.text = text /\ o.added[i].loc = loc

\* the type the analyzer derives for an expression under the scopes of an observation
TypeAt(o, expr) == getExpressionType([scopes |-> o.scopesOut], expr)

\* C14: type compatibility is directional: a source type is compatible with a target
\* type exactly when they are equal or the source is int and the target is float;
\* so an initialisation, an assignment to a variable, an argument of a call with the
\* right number of arguments and a returned value are reported exactly when the type
\* of the value is neither the expected type nor an int where a float is expected.
C14_CompatibilityIsDirectional ==
    /\ \A src \in TypeNames : \A tgt \in TypeNames :
            isTypeCompatible(src, tgt) <=> Accepted(src, tgt)
    /\ \A o \in sem.obs :
        /\ (o.kind = "VarDeclaration" /\ o.node.initializer # Null
                /\ ~BoundAsVariable(o.scopesIn, o.name)) =>
              (Added(o, "Cannot initialize", o.loc)
                  <=> ~Accepted(TypeAt(o, o.node.initializer), o.node.type))
        /\ (o.kind = "BinaryExpression" /\ o.node.op = "ASSIGN"
                /\ o.node.left.kind = "VariableExpression") =>
              (Added(o, "Cannot assign", o.loc)
                  <=> ~Accepted(TypeAt(o, o.node.right), TypeAt(o, o.node.left)))
        /\ (o.kind = "ReturnStatement" /\ o.node.value # Null /\ o.ret # << >>) =>
              (Added(o, "Cannot return from function returning", o.loc)
                  <=> ~Accepted(TypeAt(o, o.node.value), o.ret))
        /\ o.kind = "CallExpression" =>
              LET symbol == Scope_findSymbol(o.scopesIn, Len(o.scopesIn), o.name)
              IN  (symbol.symbolType = "FUNCTION"
                      /\ Len(symbol.paramTypes) = Len(o.node.arguments)) =>
                    \A i \in 1..Len(o.node.arguments) :
                        Added(o, "Argument of function expects, but got",
                                 o.node.arguments[i].loc)
                            <=> ~Accepted(TypeAt(o, o.node.arguments[i]),
                                          symbol.paramTypes[i])

\* one analysed program initialised and assigned in both directions, and only the
\* float into an int was reported, each time
C14_BothDirectionsVisited ==
    /\ pc = "idle" /\ calls >= 1
    /\ \E o \in sem.obs : \E p \in sem.obs :
          /\ o.kind = "BinaryExpression" /\ p.kind = "BinaryExpression"
          /\ o.node.op = "ASSIGN" /\ p.node.op = "ASSIGN"
          /\ TypeAt(o, o.node.right) = Str_int /\ TypeAt(o, o.node.left) = Str_float
          /\ TypeAt(p, p.node.right) = Str_float /\ TypeAt(p, p.node.left) = Str_int
          /\ o.added = << >>
          /\ Len(p.added) = 1 /\ p.added[1].message.args = <<Str_float, Str_int>>
    /\ \E o \in sem.obs : \E p \in sem.obs :
          /\ o.kind = "VarDeclaration" /\ p.kind = "VarDeclaration"
          /\ o.node.type = Str_float /\ o.node.initializer.kind = "IntegerLiteral"
          /\ p.node.type = Str_int /\ p.node.initializer.kind = "FloatLiteral"
          /\ o.added = << >>
          /\ Len(p.added) = 1 /\ p.added[1].message.text = "Cannot initialize"

\* the symbols the frames at the return of an observed visit hold beyond those at its
\* entry
NewSymbols(o) ==
    UNION {o.scopesOut[i] \ (IF i <= Len(o.scopesIn) THEN o.scopesIn[i] ELSE {}) :
              i \in 1..Len(o.scopesOut)}

\* C15: scope frames are pushed and popped in pairs: the visit of a block or of a
\* function declaration returns at the scope depth of its entry, after analyze() the
\* current scope is the global frame, and the visit of a function declaration
\* leaves behind no binding of its parameters: the only symbol it adds to the frames
\* that remain is the function itself.
C15_ScopesPaired ==
    /\ \A o \in sem.obs :
          o.kind \in {"BlockStatement", "FunctionDeclaration"} =>
              Len(o.scopesOut) = Len(o.scopesIn)
    /\ (pc = "idle" /\ calls >= 1) => Len(sem.scopes) = 1
    /\ \A o \in sem.obs :
          o.kind = "FunctionDeclaration" =>
              \A y \in NewSymbols(o) : y.symbolType = "FUNCTION" /\ y.name = o.name
    /\ \A o \in sem.obs :
          o.kind = "BlockStatement" => NewSymbols(o) = {}

\* analyze() has returned after visiting a function with a parameter: the body was
\* visited in the function's frame, which held the parameter, and the global frame
\* that remains does not
C15_ParameterFramePopped ==
    /\ pc = "idle" /\ calls >= 1
    /\ \E o \in sem.obs : \E blk \in sem.obs :
          /\ o.kind = "FunctionDeclaration" /\ o.node.parameters # << >>
          /\ Len(o.scopesIn) = 1
          /\ blk.kind = "BlockStatement" /\ blk.node = o.node.body
          /\ Len(blk.scopesIn) = 2
          /\ \E y \in blk.scopesIn[2] : y.name = o.node.parameters[1].name
          /\ ~\E y \in sem.scopes[1] : y.name = o.node.parameters[1].name

\* the return visit(FunctionDeclaration) synthesizes for a return type
DefaultRet(returnType) ==
    [opcode |-> "RET", result |-> nullptr,
     operands |-> IF returnType = "VOID" THEN << >> ELSE <<IRIntConstant(0)>>]

\* C16: when the lowering of a function returns, the block visited last is the last
\* block of the function and no block was added for the return; if that block was
\* empty or did not end in a ret, it now ends in one more instruction, `ret 0` with the
\* integer constant zero for a return type other than void and a ret without operand
\* for void; if it ended in a ret it is unchanged.
C16_TrailingReturn ==
    \A o \in irb.finished :
        /\ o.visited = o.before
        /\ o.blocks = 0
        /\ IF o.before = << >> \/ o.before[Len(o.before)].opcode # "RET"
           THEN o.after = Append(o.before, DefaultRet(o.returnType))
           ELSE o.after = o.before

\* one build lowered a non-void function whose last block was the empty endif block,
\* which got `ret 0`, and a function ending in its own ret, which got none
C16_BothEndingsLowered ==
    /\ pc = "idle" /\ calls >= 1
    /\ \E o \in irb.finished :
          /\ o.returnType = "INT32" /\ o.before = << >>
          /\ o.after = <<DefaultRet("INT32")>>
    /\ \E o \in irb.finished :
          /\ o.before # << >> /\ o.before[Len(o.before)].opcode = "RET"
          /\ o.after = o.before

\* the precedence level of an expression node, 1 for an assignment up to 10 for a
\* primary expression
Precedence(node) ==
    CASE node.kind = "BinaryExpression" ->
            (CASE node.op = "ASSIGN" -> 1
               [] node.op = "OR" -> 2
               [] node.op = "AND" -> 3
               [] node.op \in {"EQUAL", "NOT_EQUAL"} -> 4
               [] node.op \in {"LESS", "LESS_EQUAL", "GREATER", "GREATER_EQUAL"} -> 5
               [] node.op \in {"PLUS", "MINUS"} -> 6
               [] node.op \in {"MULTIPLY", "DIVIDE", "MODULO"} -> 7)
      [] node.kind = "UnaryExpression" -> 8
      [] node.kind = "CallExpression" -> 9
      [] OTHER -> 10

\* the tree is one that the precedence order and the associativity allow for an
\* expression written without grouping parentheses: the left operand of a binary
\* operator binds at least as tightly as the operator and the right operand more
\* tightly; the target of an assignment is a variable and its value any expression
RECURSIVE Nested(_)
Nested(node) ==
    CASE node.kind = "BinaryExpression" ->
            /\ IF node.op = "ASSIGN"
               THEN node.left.kind = "VariableExpression"
               ELSE /\ Precedence(node.left) >= Precedence(node)
                    /\ Precedence(node.right) > Precedence(node)
            /\ Nested(node.left)
            /\ Nested(node.right)
      [] node.kind = "UnaryExpression" ->
            Precedence(node.operand) >= 8 /\ Nested(node.operand)
      [] node.kind = "CallExpression" ->
            \A i \in 1..Len(node.arguments) : Nested(node.arguments[i])
      [] OTHER -> TRUE

\* the token types of an expression tree read from left to right
RECURSIVE Yield(_), YieldArguments(_, _)
Yield(node) ==
    CASE node.kind = "BinaryExpression" ->
            Yield(node.left) \o <<node.op>> \o Yield(node.right)
      [] node.kind = "UnaryExpression" -> <<node.op>> \o Yield(node.operand)
      [] node.kind = "CallExpression" ->
            <<"IDENTIFIER", "LEFT_PAREN">> \o YieldArguments(node.arguments, 1)
                \o <<"RIGHT_PAREN">>
      [] node.kind = "VariableExpression" -> <<"IDENTIFIER">>
      [] node.kind = "IntegerLiteral" -> <<"INTEGER_LITERAL">>
      [] node.kind = "FloatLiteral" -> <<"FLOAT_LITERAL">>
      [] node.kind = "StringLiteral" -> <<"STRING_LITERAL">>

YieldArguments(arguments, i) ==
    IF i > Len(arguments) THEN << >>
    ELSE Yield(arguments[i])
            \o (IF i < Len(arguments) THEN <<"COMMA">> ELSE << >>)
            \o YieldArguments(arguments, i + 1)

\* the token types of a program of expression statements
RECURSIVE YieldStatements(_, _)
YieldStatements(statements, i) ==
    IF i > Len(statements) THEN <<"END_OF_FILE">>
    ELSE Yield(statements[i].expression) \o <<"SEMICOLON">>
            \o YieldStatements(statements, i + 1)

\* no parenthesis of the token list groups an expression: each one opens the
\* arguments of a call of a name
GroupingFree(toks) ==
    \A i \in 1..Len(toks) :
        toks[i].type = "LEFT_PAREN" => (i > 1 /\ toks[i - 1].type = "IDENTIFIER")

\* C17: a program of expression statements written without grouping parentheses and
\* parsed without a ParseError is parsed into the trees the precedence order assignment <
\* logical-or < logical-and < equality < relational < additive < multiplicative < unary
\* < call < primary gives with every binary level left-associative and assignment
\* right-associative: the trees read back, left to right, as the tokens, and every
\* operand binds as the order requires.
C17_PrecedenceAndAssociativity ==
    (/\ pc = "parsed"
     /\ par.caught = 0 /\ par.invalid = 0
     /\ GroupingFree(tokens)
     /\ \A i \in 1..Len(program.statements) :
            program.statements[i].kind = "ExpressionStatement") =>
        /\ YieldStatements(program.statements, 1)
              = [i \in 1..Len(tokens) |-> tokens[i].type]
        /\ \A i \in 1..Len(program.statements) : Nested(program.statements[i].expression)

\* `a - b - c; a + b * c; a = b = c;` has been parsed as (a - b) - c, a + (b * c) and
\* a = (b = c)
C17_ExamplesParsed ==
    /\ pc = "parsed"
    /\ source = Join(<<"a", "-", "b", "-", "c", ";", "a", "+", "b", "*", "c", ";",
                       "a", "=", "b", "=", "c", ";">>)
    /\ Len(program.statements) = 3
    /\ LET e1 == program.statements[1].expression
           e2 == program.statements[2].expression
           e3 == program.statements[3].expression
       IN  /\ e1.op = "MINUS" /\ e1.left.kind = "BinaryExpression"
           /\ e1.left.op = "MINUS" /\ e1.right.name = <<"c">>
           /\ e2.op = "PLUS" /\ e2.left.name = <<"a">>
           /\ e2.right.kind = "BinaryExpression" /\ e2.right.op = "MULTIPLY"
           /\ e3.op = "ASSIGN" /\ e3.left.name = <<"a">>
           /\ e3.right.kind = "BinaryExpression" /\ e3.right.op = "ASSIGN"

\* the tokens from position first on spell n parameters, `type name` separated by
\* commas, that are the parameters given, in order
ParametersFrom(toks, first, parameters) ==
    \A i \in 1..Len(parameters) :
        /\ toks[first + 3 * (i - 1)].type \in {"INT", "FLOAT"}
        /\ parameters[i].type = toks[first + 3 * (i - 1)].lexeme
        /\ parameters[i].name = toks[first + 3 * (i - 1) + 1].lexeme
        /\ toks[first + 3 * (i - 1) + 2].type
              = IF i < Len(parameters) THEN "COMMA" ELSE "RIGHT_PAREN"

\* the tokens from position i on are `type name ( ) { }`
EmptyFunctionAt(toks, i) ==
    /\ Len(toks) >= i + 5
    /\ toks[i].type \in {"INT", "FLOAT", "VOID"}
    /\ [j \in 1..5 |-> toks[i + j].type]
          = <<"IDENTIFIER", "LEFT_PAREN", "RIGHT_PAREN", "LEFT_BRACE", "RIGHT_BRACE">>

\* the tokens from position i on are `type name ;`
BareVariableAt(toks, i) ==
    /\ Len(toks) >= i + 2
    /\ toks[i].type \in {"INT", "FLOAT"}
    /\ toks[i + 1].type = "IDENTIFIER"
    /\ toks[i + 2].type = "SEMICOLON"

\* C18: a declaration that parse reads from a leading int or float is a function
\* declaration if and only if the next two tokens are an identifier and `(`, and a
\* variable declaration otherwise; from a leading void it is a function declaration;
\* a FunctionDeclaration carries the return type written, the name, the parameters as
\* (type, name) in the order written, and a block as its body; `type name ( ) { }`
\* does give a FunctionDeclaration and `type name ;` a VarDeclaration.
C18_DeclarationDispatch ==
    [][(pc = "parsing" /\ Len(par'.statements) = Len(par.statements) + 1) =>
        LET lead == tokens[par.current + 1]
            node == par'.statements[Len(par'.statements)]
            function ==
                \/ lead.type = "VOID"
                \/ /\ tokens[par.current + 2].type = "IDENTIFIER"
                   /\ tokens[par.current + 3].type = "LEFT_PAREN"
        IN  /\ lead.type \in {"INT", "FLOAT", "VOID"} =>
                /\ node.kind \in {IF function THEN "FunctionDeclaration"
                                  ELSE "VarDeclaration", "null"}
                /\ node.kind = "VarDeclaration" =>
                      /\ node.type = lead.lexeme
                      /\ node.name = tokens[par.current + 2].lexeme
                /\ node.kind = "FunctionDeclaration" =>
                      /\ node.returnType = lead.lexeme
                      /\ node.name = tokens[par.current + 2].lexeme
                      /\ ParametersFrom(tokens, par.current + 4, node.parameters)
                      /\ node.parameters = << >> =>
                            tokens[par.current + 4].type = "RIGHT_PAREN"
                      /\ node.body.kind = "BlockStatement"
            /\ node.kind \in {"VarDeclaration", "FunctionDeclaration"} =>
                  lead.type \in {"INT", "FLOAT", "VOID"}
            /\ EmptyFunctionAt(tokens, par.current + 1) =>
                  node.kind = "FunctionDeclaration"
            /\ BareVariableAt(tokens, par.current + 1) => node.kind = "VarDeclaration"
      ]_vars

\* `float y; int f(int a, float b) { return a + b; } void g() { }` has been parsed
\* into a variable declaration and two function declarations, f with its two
\* parameters in order and the one return statement of its body
C18_DeclarationsParsed ==
    /\ pc = "parsed"
    /\ Len(program.statements) = 3
    /\ program.statements[1].kind = "VarDeclaration"
    /\ program.statements[1].type = Str_float
    /\ LET f == program.statements[2]
           g == program.statements[3]
       IN  /\ f.kind = "FunctionDeclaration" /\ f.returnType = Str_int
           /\ f.name = <<"f">>
           /\ Len(f.parameters) = 2
           /\ f.parameters[1].type = Str_int /\ f.parameters[1].name = <<"a">>
           /\ f.parameters[2].type = Str_float /\ f.parameters[2].name = <<"b">>
           /\ Len(f.body.statements) = 1
           /\ f.body.statements[1].kind = "ReturnStatement"
           /\ f.body.statements[1].value.op = "PLUS"
           /\ g.kind = "FunctionDeclaration" /\ g.returnType = Str_void
           /\ g.parameters = << >> /\ g.body.statements = << >>

\* the sequences of a sequence of sequences, one after the other
RECURSIVE Flatten(_)
Flatten(seqs) == IF seqs = << >> THEN << >> ELSE Head(seqs) \o Flatten(Tail(seqs))

\* the text of lines, each ended by a newline
Unlines(lines) == Flatten([i \in 1..Len(lines) |-> lines[i] \o <<"\n">>])

\* the line of an instruction: `%result = opcode op1, op2` or `opcode op1, op2`
InstructionLine(instruction) ==
    (IF instruction.result # nullptr
     THEN <<"%">> \o instruction.result.name \o <<" ", "=", " ">> ELSE << >>)
      \o irOpcodeToString(instruction.opcode)
      \o (IF instruction.operands = << >> THEN << >> ELSE <<" ">>)
      \o Flatten([i \in 1..Len(instruction.operands) |->
                    (IF i > 1 THEN <<",", " ">> ELSE << >>)
                        \o IRValue_toString(instruction.operands[i])])

\* the lines of a block: its label line, then its instructions indented by two spaces
BlockLines(blk) ==
    <<blk.name \o <<":">> >>
      \o [i \in 1..Len(blk.instructions) |->
            <<" ", " ">> \o InstructionLine(blk.instructions[i])]

\* the lines of a function: the signature, the blocks in order, the closing brace
FunctionLines(fn) ==
    <<<<"d", "e", "f", "i", "n", "e", " ">> \o irTypeToString(fn.returnType) \o <<" ", "@">> \o fn.name
        \o <<"(">>
        \o Flatten([i \in 1..Len(fn.parameters) |->
                      (IF i > 1 THEN <<",", " ">> ELSE << >>)
                          \o irTypeToString(fn.parameters[i].type)
                          \o <<" ", "%">> \o fn.parameters[i].name])
        \o <<")", " ", "{">> >>
      \o Flatten([j \in 1..Len(fn.blocks) |-> BlockLines(fn.blocks[j])])
      \o << <<"}">> >>

\* the lines of a module: the header, a blank line, then each function and a blank line
ModuleLines(name, functions) ==
    <<<<";", " ", "M", "o", "d", "u", "l", "e", "I", "D", " ", "=", " ", "'">> \o name \o <<"'">>, << >> >>
      \o Flatten([f \in 1..Len(functions) |-> FunctionLines(functions[f]) \o << << >> >>])

\* the module of the repository's test of IRModule::toString
TestModule ==
    LET result == IRIdentifier(<<"r", "e", "s", "u", "l", "t">>, "INT32")
        a == IRIdentifier(<<"a">>, "INT32")
        b == IRIdentifier(<<"b">>, "INT32")
    IN  <<[name |-> <<"a", "d", "d">>, returnType |-> "INT32",
           parameters |-> <<IRFunctionParameter(<<"a">>, "INT32"),
                            IRFunctionParameter(<<"b">>, "INT32")>>,
           blocks |-> <<[name |-> Str_entry,
                         instructions |-> <<IRInstruction("ADD", result, <<a, b>>),
                                            IRInstruction("RET", nullptr, <<result>>)>>]>>]>>

TestModuleText ==
    <<";", " ", "M", "o", "d", "u", "l", "e", "I", "D", " ", "=", " ", "'", "t", "e",
      "s", "t", "_", "m", "o", "d", "u", "l", "e", "'", "\n", "\n", "d", "e", "f",
      "i", "n", "e", " ", "i", "3", "2", " ", "@", "a", "d", "d", "(", "i", "3", "2",
      " ", "%", "a", ",", " ", "i", "3", "2", " ", "%", "b", ")", " ", "{", "\n",
      "e", "n", "t", "r", "y", ":", "\n", " ", " ", "%", "r", "e", "s", "u", "l",
      "t", " ", "=", " ", "a", "d", "d", " ", "%", "a", ",", " ", "%", "b", "\n",
      " ", " ", "r", "e", "t", " ", "%", "r", "e", "s", "u", "l", "t", "\n", "}",
      "\n", "\n">>

\* C19: the text of a module is its parts in the order they were appended: the header
\* line `; ModuleID = '<name>'` and a blank line, then for each function the line
\* `define <ret> @<name>(<type> %<param>, ...) {`, for each of its blocks the line
\* `name:` and each instruction on a line of its own indented by two spaces, as
\* `%result = opcode op1, op2, ...` with a result and `opcode op1, ...` without, then
\* the line `}` and a blank line; the module of the repository's test has the text
\* the test expects.
C19_DumpIsConcatenation ==
    /\ \A k \in 1..Len(irb.dumps) :
          irb.dumps[k] = Unlines(ModuleLines(ModuleName, irb.results[k]))
    /\ IRModule_toString(<<"t", "e", "s", "t", "_", "m", "o", "d", "u", "l", "e">>,
                         TestModule) = TestModuleText

\* build() has returned a module of two functions, one of several blocks, with an
\* instruction that has a result and one that has none, and its text was taken
C19_ModuleDumped ==
    /\ pc = "idle" /\ irb.dumps # << >>
    /\ LET module == irb.results[Len(irb.results)]
       IN  /\ Len(module) = 2
           /\ \E f \in 1..2 :
                /\ Len(module[f].blocks) >= 2
                /\ module[f].parameters # << >>
                /\ \E j \in 1..Len(module[f].blocks) :
                     \E i \in 1..Len(module[f].blocks[j].instructions) :
                        module[f].blocks[j].instructions[i].result # nullptr
                /\ \E j \in 1..Len(module[f].blocks) :
                     \E i \in 1..Len(module[f].blocks[j].instructions) :
                        module[f].blocks[j].instructions[i].result = nullptr

\* the words of a source: the maximal runs of characters other than space and newline,
\* from position i on, word being the run read so far
RECURSIVE WordsFrom(_, _, _)
WordsFrom(src, i, word) ==
    IF i > Len(src) THEN (IF word = << >> THEN << >> ELSE <<word>>)
    ELSE IF src[i] \in {" ", "\n"}
    THEN (IF word = << >> THEN << >> ELSE <<word>>) \o WordsFrom(src, i + 1, << >>)
    ELSE WordsFrom(src, i + 1, Append(word, src[i]))

\* the token kind of an operator lexeme, and UNKNOWN for a lone & or |
OperatorKind(lexeme) ==
    CASE lexeme = <<"+">> -> "PLUS"
      [] lexeme = <<"-">> -> "MINUS"
      [] lexeme = <<"*">> -> "MULTIPLY"
      [] lexeme = <<"/">> -> "DIVIDE"
      [] lexeme = <<"%">> -> "MODULO"
      [] lexeme = <<"=">> -> "ASSIGN"
      [] lexeme = <<"=", "=">> -> "EQUAL"
      [] lexeme = <<"!", "=">> -> "NOT_EQUAL"
      [] lexeme = <<"<">> -> "LESS"
      [] lexeme = <<"<", "=">> -> "LESS_EQUAL"
      [] lexeme = <<">">> -> "GREATER"
      [] lexeme = <<">", "=">> -> "GREATER_EQUAL"
      [] lexeme = <<"&", "&">> -> "AND"
      [] lexeme = <<"|", "|">> -> "OR"
      [] lexeme \in {<<"&">>, <<"|">>} -> "UNKNOWN"

KindsAndLexemes(toks) ==
    [i \in 1..Len(toks) |-> [type |-> toks[i].type, lexeme |-> toks[i].lexeme]]

\* the comment of the insertion comes straight after a `/`
AfterSlash(r) == r.at = "before" /\ r.left[Len(r.left)] = "/"

\* the statement of C21 for every place in the whitespace between two tokens
C21_CommentAnywhereInGap ==
    pc = "scanned" =>
        \A r \in CommentInsertions :
            source = Commented(r) =>
                KindsAndLexemes(tokens) = KindsAndLexemes(scanTokens(Uncommented(r)))

\* C21: a `//` comment ended by a newline or a terminated `/* */` comment, put into
\* the whitespace between two tokens and not straight after a `/`, does not change
\* the kinds and lexemes scanTokens returns, and no token comes from its text.
C21_CommentIsWhitespace ==
    pc = "scanned" =>
        \A r \in CommentInsertions :
            (source = Commented(r) /\ ~AfterSlash(r)) =>
                KindsAndLexemes(tokens) = KindsAndLexemes(scanTokens(Uncommented(r)))

\* a source of the shape of the comment test, with a line comment and a block comment
\* over two lines, has been scanned into its six tokens and END_OF_FILE
C21_CommentsSkipped ==
    /\ pc = "scanned"
    /\ source = CommentTestSource
    /\ [i \in 1..Len(tokens) |-> tokens[i].type]
          = <<"INTEGER_LITERAL", "SEMICOLON", "INTEGER_LITERAL", "SEMICOLON",
              "INTEGER_LITERAL", "SEMICOLON", "END_OF_FILE">>

\* the cursor the recovery is to leave when the ParseError was raised at cursor p: the
\* first one from p on that is at END_OF_FILE, or past p and just after a `;`, or at
\* one of int, float, if, while, return
SyncPoint(toks, p) ==
    LET stops == {q \in p..(Len(toks) - 1) :
                     \/ toks[q + 1].type = "END_OF_FILE"
                     \/ q > p /\ toks[q].type = "SEMICOLON"
                     \/ toks[q + 1].type \in {"INT", "FLOAT", "IF", "WHILE", "RETURN"}}
    IN  CHOOSE q \in stops : \A r \in stops : q <= r

\* C22: recovery discards only the tokens before the next synchronisation point:
\* every synchronize() run after a ParseError raised at cursor p has left the cursor
\* at the first position from p on that is END_OF_FILE, or past p and just after a
\* `;`, or at int, float, if, while or return; one of these at p itself is kept.
C22_SynchronizeStopsAtFirstPoint ==
    \A s \in par.recovered : s.to = SyncPoint(tokens, s.from)

\* C23: the catch clause of parse() is never entered: every ParseError raised, at top
\* level or in a nested block, function body or expression, is caught in a
\* declaration() call; no line of the parser's error output is the `Parse error: `
\* line of parse(), and each ParseError raised has been caught by a declaration().
C23_OuterCatchUnreachable ==
    /\ \A i \in 1..Len(par.log) : par.log[i][1] # "Parse error: "
    /\ par.caught = par.raised

\* parse() has returned after ParseErrors raised at top level and inside a block
\* were caught, each by the declaration() that was parsing there
C23_NestedErrorsCaught ==
    /\ pc = "parsed"
    /\ par.caught >= 2
    /\ \E s \in par.recovered : \E d \in par.declared :
          d.from < s.from /\ s.to < d.to

\* every element of every statement list of the tree under node is a node, not a
\* null pointer (the lists are those of Program and of BlockStatement; the tree is
\* walked through the bodies and branches of functions, if and while)
RECURSIVE StatementListsValid(_)
RECURSIVE AllStatementsValid(_, _)
StatementListsValid(node) ==
    CASE node.kind \in {"Program", "BlockStatement"} ->
             AllStatementsValid(node.statements, 1)
      [] node.kind = "FunctionDeclaration" -> StatementListsValid(node.body)
      [] node.kind = "IfStatement" ->
             StatementListsValid(node.thenBranch) /\ StatementListsValid(node.elseBranch)
      [] node.kind = "WhileStatement" -> StatementListsValid(node.body)
      [] OTHER -> TRUE

AllStatementsValid(statements, i) ==
    IF i > Len(statements) THEN TRUE
    ELSE /\ statements[i] # Null
         /\ StatementListsValid(statements[i])
         /\ AllStatementsValid(statements, i + 1)

\* C28: the AST parse() returns holds no null statement pointer: every element of
\* the statement list of the Program and of every BlockStatement is a node, also
\* when ParseErrors were raised and recovered from.
C28_NoNullStatement ==
    pc = "parsed" => StatementListsValid(program)

\* every declaration() called with the cursor before the END_OF_FILE token has
\* returned with the cursor at least one token further
DeclarationsAdvance ==
    \A d \in par.declared :
        tokens[d.from + 1].type # "END_OF_FILE" => d.to > d.from

\* C29: parse() terminates on every token sequence ending in END_OF_FILE: every
\* declaration() called with the cursor not at END_OF_FILE, from the loop of
\* parse() or of block(), advances the cursor by at least one token whether it
\* succeeds or recovers from a ParseError; when parse() has returned the cursor is
\* at the END_OF_FILE token; and parse() does leave its loop.
C29_ParseTerminates ==
    /\ [](DeclarationsAdvance /\ (pc = "parsed" => Parser_isAtEnd(tokens, par)))
    /\ <>(pc # "parsing")

\* some of the statements are nodes and some are null pointers
Mixed(statements) ==
    /\ \E i \in 1..Len(statements) : statements[i] = Null
    /\ \E i \in 1..Len(statements) : statements[i] # Null

\* parse() has returned after declarations that succeeded and declarations that
\* recovered from a ParseError, some of each called from the loop of parse() and
\* some of each from the loop of block()
C29_LoopsLeft ==
    /\ pc = "parsed"
    /\ Mixed(program.statements)
    /\ \E i \in 1..Len(program.statements) :
          /\ program.statements[i].kind = "BlockStatement"
          /\ Mixed(program.statements[i].statements)
    /\ Cardinality(par.recovered) >= 2

\* the label createLabel makes of a prefix when labelCounter_ is k
Label(prefix, k) == prefix \o <<".">> \o to_string(k)

Jmp(label) == IRInstruction("JMP", nullptr, <<IRLabel(label)>>)

JmpIf(value, label) == IRInstruction("JMP_IF", nullptr, <<value, IRLabel(label)>>)

\* the blocks function fn of the builder r has beyond its first n, as r holds them
BlocksBeyond(r, fn, n) ==
    [i \in 1..(Len(r.functions[fn].blocks) - n) |-> r.blocks[r.functions[fn].blocks[n + i]]]

\* whether the last instruction of a block is inst
EndsWith(blk, inst) ==
    blk.instructions # << >> /\ blk.instructions[Len(blk.instructions)] = inst

\* the lowering of expression e alone, by a handler that has drawn three labels
\* from the builder b: the builder after it, with the value of e on top of the stack
Condition(b, e) == IRBuilder_visit([b EXCEPT !.labelCounter = @ + 3], e)

Top(stack) == stack[Len(stack)]

\* o is a lowering that began inside a function
InFunction(o) == o.entry.currentFunction # 0 /\ o.entry.currentBlock # 0

\* the names of the blocks of function fn of builder r are pairwise different
NamesUnique(r, fn) ==
    LET blocks == BlocksBeyond(r, fn, 0)
    IN  \A i, j \in 1..Len(blocks) : i # j => blocks[i].name # blocks[j].name

\* C24: lowering `if (C) THEN [else ELSE]` inside a function appends to the function
\* three blocks of its own, then.k, else.k+1 and endif.k+2 for the label counter k, in
\* this order, then first and endif last (blocks between them are those THEN and ELSE
\* made), all names of the function different; the block that was current gets the
\* instructions of C, then jmp_if on the value of C to then.k and straight after it
\* jmp to else.k+1; the block in which the lowering of THEN ends, the one before
\* else.k+1, ends in jmp to endif.k+2, and so does the one before endif.k+2, in which
\* the lowering of ELSE ends; without ELSE the else block holds this jmp alone; the
\* endif block, empty, is the current block afterwards.
C24_IfShape ==
    \A o \in irb.lowered :
        (o.node.kind = "IfStatement" /\ InFunction(o)) =>
            LET b == o.entry
                r == o.exit
                fn == b.currentFunction
                k == b.labelCounter
                n == Len(b.functions[fn].blocks)
                added == BlocksBeyond(r, fn, n)
                c == Condition(b, o.node.condition)
                before == b.blocks[b.currentBlock].instructions
                cond == c.blocks[b.currentBlock].instructions
                own == {i \in 1..Len(added) :
                           added[i].name \in {Label(Str_then, k), Label(Str_else, k + 1),
                                              Label(Str_endif, k + 2)}}
            IN  /\ SubSeq(r.functions[fn].blocks, 1, n) = b.functions[fn].blocks
                /\ Cardinality(own) = 3
                /\ NamesUnique(r, fn)
                /\ added[1].name = Label(Str_then, k)
                /\ added[Len(added)].name = Label(Str_endif, k + 2)
                /\ SubSeq(cond, 1, Len(before)) = before
                /\ r.blocks[b.currentBlock].instructions =
                       cond \o <<JmpIf(Top(c.valueStack), Label(Str_then, k)),
                                 Jmp(Label(Str_else, k + 1))>>
                /\ \A i \in own :
                       added[i].name = Label(Str_else, k + 1) =>
                           /\ EndsWith(added[i - 1], Jmp(Label(Str_endif, k + 2)))
                           /\ o.node.elseBranch = Null =>
                                  /\ i = Len(added) - 1
                                  /\ added[i].instructions = <<Jmp(Label(Str_endif, k + 2))>>
                /\ EndsWith(added[Len(added) - 1], Jmp(Label(Str_endif, k + 2)))
                /\ r.currentFunction = fn
                /\ r.currentBlock = r.functions[fn].blocks[Len(r.functions[fn].blocks)]
                /\ added[Len(added)].instructions = << >>

\* C25: lowering `while (C) BODY` inside a function appends to the function three
\* blocks of its own, while.cond.k, while.body.k+1 and while.end.k+2 for the label
\* counter k, in this order, cond first and end last (blocks between body and end are
\* those BODY made); the block that was current ends in jmp to the cond label; the
\* cond block holds the instructions of C, then jmp_if on the value of C to the body
\* label and straight after it jmp to the end label; the block in which the lowering
\* of BODY ends, the one before the end block, ends in jmp to the cond label; the end
\* block, empty, is the current block afterwards.
C25_WhileShape ==
    \A o \in irb.lowered :
        (o.node.kind = "WhileStatement" /\ InFunction(o)) =>
            LET b == o.entry
                r == o.exit
                fn == b.currentFunction
                k == b.labelCounter
                n == Len(b.functions[fn].blocks)
                added == BlocksBeyond(r, fn, n)
                \* the builder when C is lowered: the jmp added, the cond block entered
                c == Condition(enterBlock(addInstruction(b, Jmp(Label(Str_while_cond, k))),
                                          Label(Str_while_cond, k)),
                               o.node.condition)
                own == {i \in 1..Len(added) :
                           added[i].name \in {Label(Str_while_cond, k),
                                              Label(Str_while_body, k + 1),
                                              Label(Str_while_end, k + 2)}}
            IN  /\ SubSeq(r.functions[fn].blocks, 1, n) = b.functions[fn].blocks
                /\ Cardinality(own) = 3
                /\ NamesUnique(r, fn)
                /\ Len(added) >= 3
                /\ added[1].name = Label(Str_while_cond, k)
                /\ added[2].name = Label(Str_while_body, k + 1)
                /\ added[Len(added)].name = Label(Str_while_end, k + 2)
                /\ r.blocks[b.currentBlock].instructions =
                       Append(b.blocks[b.currentBlock].instructions,
                              Jmp(Label(Str_while_cond, k)))
                /\ added[1].instructions =
                       c.blocks[c.currentBlock].instructions
                           \o <<JmpIf(Top(c.valueStack), Label(Str_while_body, k + 1)),
                                Jmp(Label(Str_while_end, k + 2))>>
                /\ EndsWith(added[Len(added) - 1], Jmp(Label(Str_while_cond, k)))
                /\ r.currentFunction = fn
                /\ r.currentBlock = r.functions[fn].blocks[Len(r.functions[fn].blocks)]
                /\ added[Len(added)].instructions = << >>

\* C26: in every module build() has returned, every basic block of every function
\* holds at least one instruction and its last instruction is a jmp or a ret.
C26_BlocksEndInTransfer ==
    \A n \in 1..Len(irb.results) :
        \A f \in 1..Len(irb.results[n]) :
            \A k \in 1..Len(irb.results[n][f].blocks) :
                LET instructions == irb.results[n][f].blocks[k].instructions
                IN  /\ instructions # << >>
                    /\ instructions[Len(instructions)].opcode \in {"JMP", "RET"}

\* analyze(program) on a new SemanticAnalyzer: the analyzer when it returns
analyze(prog) == visitStatements(analyzeBegin(SemanticAnalyzerInit), prog.statements, 1)

\* the program is one the analyzer accepts: no fault, no diagnostic
WellTyped(prog) == ~analyze(prog).fault /\ analyze(prog).errors = << >>

\* the last instruction of the block that was current when the lowering o began
Emitted(o) ==
    LET instructions == o.exit.blocks[o.entry.currentBlock].instructions
    IN  instructions[Len(instructions)]

\* C27: lowering a binary expression inside a function lowers the left subexpression,
\* then the right one, and uses both values: for an arithmetic, comparison or logical
\* operator the instruction emitted has the operator's opcode and the operands
\* [value of left, value of right]; for an assignment to a declared variable v the
\* store emitted has the operands [value of the right side, slot of v]; and when the
\* analyzer accepts the program no pop has met an empty operand stack.
C27_BinaryUsesBothOperands ==
    /\ \A o \in irb.lowered :
          (o.node.kind = "BinaryExpression" /\ InFunction(o)) =>
              LET b == o.entry
                  left == IRBuilder_visit(b, o.node.left)
                  right == IRBuilder_visit(left, o.node.right)
                  e == IRBuilder_visit(b, o.node.right)
                  v == IF o.node.left.kind = "VariableExpression"
                       THEN symbolTable_find(b, o.node.left.name) ELSE nullptr
              IN  IF o.node.op = "ASSIGN"
                  THEN v # nullptr =>
                          /\ Emitted(o).opcode = "STORE"
                          /\ Emitted(o).operands = <<Top(e.valueStack), v>>
                  ELSE BinaryOpcode(o.node.op) # "default" =>
                          /\ Emitted(o).opcode = BinaryOpcode(o.node.op)
                          /\ Emitted(o).operands =
                                 <<Top(left.valueStack), Top(right.valueStack)>>
    /\ (pc # "fault" /\ WellTyped(program)) => irb.emptyPops = {}

\* C30: the analyzer and the IR builder agree on name resolution: every variable
\* reference the analyzer accepts without an 'Undefined variable' diagnostic, a
\* reference inside a function body to a variable declared at global scope included,
\* is resolved by the IR builder to a declared slot of that name and its value is a
\* load from the slot, not the integer constant zero put for an unresolved name.
C30_ResolutionAgrees ==
    \A o \in irb.lowered :
        (/\ o.node.kind = "VariableExpression"
         /\ ~analyze(program).fault
         /\ ~Reported(analyze(program).errors, "Undefined variable", o.node.name,
                      o.node.loc)) =>
            LET slot == symbolTable_find(o.entry, o.node.name)
            IN  /\ slot # nullptr
                /\ Top(o.exit.valueStack) # IRIntConstant(0)
                /\ InFunction(o) =>
                      /\ Emitted(o).opcode = "LOAD"
                      /\ Emitted(o).operands = <<slot>>
                      /\ Emitted(o).result = Top(o.exit.valueStack)

====
